---- MODULE Spec2Model ----
(***************************************************************************)
(* Storage accounting core of the storage server: the immutable share      *)
(* container (ShareFile), the bucket writer / reader lifecycle, the lease  *)
(* database (LeaseDB) and the accounting crawler.                          *)
(*                                                                         *)
(* The filesystem below <base>/shares is a map from paths to file          *)
(* contents plus a set of directories.  A path is a sequence of names:     *)
(*   <<"incoming", pp, si, shnum>>   the staged share                      *)
(*   <<pp, si, shnum>>               the committed share                   *)
(* A file's content is its sequence of bytes, header included.             *)
(***************************************************************************)
EXTENDS Integers, Sequences, FiniteSets, TLC

\* ---------------------------------------------------------------- bounds

\* Largest allocated_size a BucketWriter is created with.
MaxAlloc == 2
\* Largest offset a write or a read is issued at.
MaxOffset == 2

\* Payload bytes the clients write.
DataBytes == {1, 2}
\* The byte strings a remote_write carries.
DataChoices == {<<>>, <<1>>, <<1, 2>>}
\* Lengths a remote_read asks for.
ReadLengths == {1, 2}

Writers == {"w1", "w2"}
Readers == {"r1"}
\* Storage indexes (their first two characters are the prefix) and share
\* numbers, as the names they have on disk.
StorageIndexes == {"ab1", "ab2"}
ShnumNames == {"0", "1"}
\* The shares the clients upload: two shares of one storage index and one
\* share of another storage index with the same prefix.
Shares == {<<"ab1", "0">>, <<"ab1", "1">>, <<"ab2", "0">>}

\* Account names (pubkey strings), as sequences of characters: "pub-v0-a",
\* "anonymous", "a:b", "../x", "a b", the empty string, and "a" followed by
\* a newline.
PubA == <<"p", "u", "b", "-", "v", "0", "-", "a">>
Anonymous == <<"a", "n", "o", "n", "y", "m", "o", "u", "s">>
PubkeyStrings ==
    {PubA, Anonymous, <<"a", ":", "b">>, <<".", ".", "/", "x">>,
     <<"a", " ", "b">>, <<>>, <<"a", "LF">>}

\* Largest number of Account objects created in the model.
MaxHandles == 3

\* ------------------------------------------------------- program constants

HEADER_SIZE == 12
\* struct.calcsize(">LL"): the length struct.unpack(">LL", ...) insists on.
UNPACK_LL_SIZE == 8
\* Columns of the leases table, and values add_share's INSERT supplies.
LEASES_COLUMNS == 5
ADD_SHARE_LEASE_VALUES == 3
STARTER_LEASE_ACCOUNTID == 1
DAY == 24 * 60 * 60
MONTH == 30 * DAY
STARTER_LEASE_DURATION == 2 * MONTH

\* ---------------------------------------------------------------- paths

\* The prefix of a storage index: its first two characters.
Prefix(si) == CASE si = "ab1" -> "ab" [] si = "ab2" -> "ab" [] OTHER -> "cd"

\* Mutant: the share is staged at its committed path.
IncomingHome_at_final(s) == <<Prefix(s[1]), s[1], s[2]>>

IncomingHome(s) == <<"incoming", Prefix(s[1]), s[1], s[2]>>
FinalHome(s) == <<Prefix(s[1]), s[1], s[2]>>

FilePaths == {IncomingHome(s) : s \in Shares} \cup {FinalHome(s) : s \in Shares}

dirname(p) == SubSeq(p, 1, Len(p) - 1)

\* A file that does not exist.
NoFile == <<-1>>

\* ------------------------------------------------------------ filesystem

path_exists(f, p) == f[p] # NoFile

\* fileutil.make_dirs: the directory and every missing ancestor.
make_dirs(ds, d) == ds \cup {SubSeq(d, 1, k) : k \in 1..Len(d)}

\* os.listdir(d) is empty: no file and no directory has d as its parent.
dir_is_empty(f, ds, d) ==
    /\ \A p \in FilePaths : path_exists(f, p) => dirname(p) # d
    /\ \A e \in ds : Len(e) = 0 \/ dirname(e) # d

\* os.rmdir succeeds only on an existing, empty directory.
rmdir_ok(f, ds, d) == d \in ds /\ dir_is_empty(f, ds, d)

\* ---------------------------------------------------------- share container

\* struct.pack(">L", n): four bytes, big-endian.
pack_L(n) == << (n \div 16777216) % 256, (n \div 65536) % 256,
                (n \div 256) % 256, n % 256 >>

\* struct.unpack(">L", b) of four bytes.
unpack_L(b) == ((b[1] * 256 + b[2]) * 256 + b[3]) * 256 + b[4]

Min(a, b) == IF a < b THEN a ELSE b

\* struct.pack(">L", min(2**32-1, n)): n saturates at 2**32-1, whose four
\* bytes are all 255 (n >= 2**32 exactly when n \div 2**16 >= 2**16).
pack_L_saturated(n) ==
    IF n \div 65536 >= 65536 THEN <<255, 255, 255, 255>> ELSE pack_L(n)

\* The header ShareFile(create=True) writes.
share_header(max_size) ==
    pack_L(1) \o pack_L_saturated(max_size) \o pack_L(0)

\* f.read(n) from position pos: the bytes present, truncated at end of file.
file_read(content, pos, n) ==
    IF pos >= Len(content) THEN <<>>
    ELSE SubSeq(content, pos + 1, Min(Len(content), pos + n))

\* f.seek(pos); f.write(data) on a file opened 'rb+': a gap between the end
\* of the file and pos reads as zero bytes; writing nothing changes nothing.
file_write(content, pos, data) ==
    IF data = <<>> THEN content
    ELSE LET newlen == IF pos + Len(data) > Len(content)
                       THEN pos + Len(data) ELSE Len(content)
         IN [i \in 1..newlen |->
                IF i > pos /\ i <= pos + Len(data) THEN data[i - pos]
                ELSE IF i <= Len(content) THEN content[i]
                ELSE 0]

\* ShareFile.__init__ without create, on an existing file: the outcome.
ShareFile_open(content) ==
    LET hdr == file_read(content, 0, HEADER_SIZE)
    IN IF Len(hdr) # UNPACK_LL_SIZE THEN "struct.error"
       ELSE IF unpack_L(SubSeq(hdr, 1, 4)) # 1
            THEN "UnknownImmutableContainerVersionError"
            ELSE "ok"

\* Mutant: the read seeks to offset, not past the header.
read_share_data_no_header(content, offset, length) ==
    file_read(content, offset, length)

\* ShareFile.read_share_data on the file's content.
read_share_data(content, offset, length) ==
    file_read(content, HEADER_SIZE + offset, length)

\* Mutant: the write opens the file 'wb', which empties it first.
write_share_data_truncating(content, offset, data) ==
    file_write(<<>>, HEADER_SIZE + offset, data)

\* ShareFile.write_share_data on the file's content, once the size check
\* has passed.
write_share_data(content, offset, data) ==
    file_write(content, HEADER_SIZE + offset, data)

\* Mutant: the size check forgets the length of the data.
data_too_large_offset_only(max_size, offset, data) == offset > max_size

\* The size check of write_share_data.
data_too_large(max_size, offset, data) == offset + Len(data) > max_size


\* ---------------------------------------------------------------- state

VARIABLES
    files,      \* path -> content of the file there, or NoFile
    dirs,       \* the directories that exist
    bw,         \* BucketWriter objects: their fields
    written,    \* per writer: the payload bytes its accepted writes stored
    notified,   \* per writer: the lengths passed to ss.bucket_writer_closed
    committer,  \* per share: who put the file at the committed path
    rd,         \* BucketReader objects: the share file each one holds
    lastCall,   \* the call that led to this state, and its outcome
    dbShares,   \* leasedb: rows of the shares table (as the connection sees it)
    dbLeases,   \* leasedb: rows of the leases table
    dbNextId,   \* leasedb: next AUTOINCREMENT id of the shares table
    dbDirty,    \* LeaseDB._dirty
    dbDurable,  \* leasedb: the shares and leases rows of the last commit
    now,        \* time.time()
    accountant, \* Accountant object: the attributes get_account uses
    accounts_fs,\* the accounts directory: next_ownernum and one entry per name
    handles,    \* the Account objects created so far, in order of creation
    dbfile,     \* the lease database file: its version row, and the connection
    crawler,    \* AccountingCrawler object: _do_expire and _expire_time
    attrfile,   \* an account attribute file, its .tmp file and the _write on it
    client      \* StorageFarmBroker: servers, and the NativeStorageServers

fsVars == <<files, dirs>>
bwVars == <<bw, written, notified, committer>>
dbVars == <<dbShares, dbLeases, dbNextId, dbDirty, dbDurable>>
acctVars == <<accountant, accounts_fs, handles>>
restVars == <<dbfile, crawler, attrfile, client>>
vars == <<files, dirs, bw, written, notified, committer, rd, lastCall,
          dbShares, dbLeases, dbNextId, dbDirty, dbDurable, now,
          accountant, accounts_fs, handles, dbfile, crawler, attrfile,
          client>>

NoShare == <<"-", "-">>
NotWritten == -1
Unborn == [born |-> "no", share |-> NoShare, max_size |-> 0,
           closed |-> FALSE, hooked |-> FALSE, sharefile |-> FALSE]
NoWrites == [o \in 0..(MaxAlloc - 1) |-> NotWritten]

CallData(op, who, res, data) ==
    [op |-> op, who |-> who, res |-> res, data |-> data]
Call(op, who, res) == CallData(op, who, res, <<>>)

InitFs ==
    /\ files = [p \in FilePaths |-> NoFile]
    /\ dirs = {<<"incoming">>}

InitBuckets ==
    /\ bw = [w \in Writers |-> Unborn]
    /\ written = [w \in Writers |-> NoWrites]
    /\ notified = [w \in Writers |-> <<>>]
    /\ committer = [s \in Shares |-> "-"]
    /\ rd = [r \in Readers |-> NoShare]
    /\ lastCall = Call("init", "-", "ok")

InitDb ==
    /\ dbShares = {}
    /\ dbLeases = {}
    /\ dbNextId = 1
    /\ dbDirty = FALSE
    /\ dbDurable = [shares |-> {}, leases |-> {}]
    /\ now = 0

\* No number: a file that does not exist, or Python's None.
NoNumber == -1

\* An attribute file that does not exist (Account._read returns None).
NoString == "-none-"

\* An account name that has no directory under accounts/, and so none of
\* the attribute files of an account directory.
NoEntry == [dir |-> FALSE, ownernum |-> NoNumber, created |-> NoNumber,
            nickname |-> NoString, last_connected_from |-> NoString,
            last_seen |-> NoNumber]

\* Accountant.__init__ sets none of accountsdir, create_if_missing and
\* _anonymous_account; _active_accounts starts empty (0: no entry).
InitAccounts ==
    /\ accountant = [accountsdir |-> "unset",
                     create_if_missing |-> "unset",
                     anonymous_account |-> "unset",
                     active_accounts |-> [n \in PubkeyStrings |-> 0],
                     call |-> [pc |-> "idle", name |-> <<>>,
                               next_ownernum |-> NoNumber]]
    /\ accounts_fs = [next_ownernum |-> NoNumber,
                      entries |-> [n \in PubkeyStrings |-> NoEntry]]
    /\ handles = <<>>

\* The version LEASE_SCHEMA_V1 is created with.
SCHEMA_VERSION == 1

\* A file that does not exist.
Absent == <<"absent">>

\* The tub ids the announced FURLs name, and the number of
\* NativeStorageServer objects the broker makes.
ServerIds == {"s1", "s2"}
MaxServers == 2

\* LeaseDB.__init__ has opened a new database file; AccountingCrawler.__init__
\* sets _expire_time to None and does not set _do_expire (has_do_expire says
\* whether the attribute exists); no attribute of the account has been
\* written yet; no StorageFarmBroker has been made.
InitRest ==
    /\ client = [constructed |-> FALSE, client_key |-> FALSE,
                 servers |-> [i \in ServerIds |-> 0], objs |-> <<>>]
    /\ dbfile = [version |-> SCHEMA_VERSION, open |-> TRUE]
    /\ crawler = [has_do_expire |-> FALSE, do_expire |-> FALSE,
                  expire_time |-> NoNumber]
    /\ attrfile = [fn |-> Absent, tmp |-> Absent, pc |-> "idle",
                   data |-> <<>>, prev |-> Absent]

Init == InitFs /\ InitBuckets /\ InitDb /\ InitAccounts /\ InitRest

\* ---------------------------------------------------------- bucket writer

\* BucketWriter.__init__: the disconnect hook is registered first, then the
\* staged container is created.  ShareFile(create=True) asserts that the
\* staged path is free; when it is not, construction fails with the hook
\* already registered, and the caller gets no writer.
BucketWriter_init(w, s, max_size) ==
    /\ bw[w].born = "no"
    /\ LET home == IncomingHome(s)
           obj == [born |-> "yes", share |-> s, max_size |-> max_size,
                   closed |-> FALSE, hooked |-> TRUE, sharefile |-> TRUE]
       IN IF path_exists(files, home)
          THEN /\ bw' = [bw EXCEPT ![w] = [obj EXCEPT !.born = "failed",
                                                      !.sharefile = FALSE]]
               /\ lastCall' = Call("init", w, "AssertionError")
               /\ UNCHANGED fsVars
          ELSE /\ bw' = [bw EXCEPT ![w] = obj]
               /\ dirs' = make_dirs(dirs, dirname(home))
               /\ files' = [files EXCEPT ![home] = share_header(max_size)]
               /\ lastCall' = Call("init", w, "ok")
    /\ UNCHANGED <<written, notified, committer, rd, dbVars, now, restVars, acctVars>>

\* The payload bytes a writer's ghost record holds after one more write.
record_write(wr, offset, data) ==
    [o \in DOMAIN wr |->
        IF o >= offset /\ o < offset + Len(data) THEN data[o - offset + 1]
        ELSE wr[o]]

\* BucketWriter.remote_write.
remote_write(w, offset, data) ==
    /\ bw[w].born = "yes"
    /\ LET home == IncomingHome(bw[w].share)
       IN IF bw[w].closed
          THEN /\ lastCall' = Call("write", w, "PreconditionError")
               /\ UNCHANGED <<fsVars, written>>
          ELSE IF data_too_large(bw[w].max_size, offset, data)
          THEN /\ lastCall' = Call("write", w, "DataTooLargeError")
               /\ UNCHANGED <<fsVars, written>>
          ELSE IF ~path_exists(files, home)
          THEN /\ lastCall' = Call("write", w, "IOError")
               /\ UNCHANGED <<fsVars, written>>
          ELSE /\ files' = [files EXCEPT
                              ![home] = write_share_data(@, offset, data)]
               /\ written' = [written EXCEPT
                                ![w] = record_write(@, offset, data)]
               /\ lastCall' = Call("write", w, "ok")
               /\ UNCHANGED dirs
    /\ UNCHANGED <<bw, notified, committer, rd, dbVars, now, restVars, acctVars>>

\* The two os.rmdir calls of remote_close, inside one try block: the
\* grandparent is tried only when the parent could be removed.
close_rmdirs(f, ds, home) ==
    LET parent == dirname(home)
        grand == dirname(parent)
    IN IF ~rmdir_ok(f, ds, parent) THEN ds
       ELSE IF ~rmdir_ok(f, ds \ {parent}, grand) THEN ds \ {parent}
       ELSE ds \ {parent, grand}

\* The file map after fileutil.rename(src, dst): os.rename replaces dst.
rename_files(f, src, dst) == [f EXCEPT ![dst] = f[src], ![src] = NoFile]

\* Mutant: remote_close leaves the disconnect hook subscribed.
close_effect_keeping_hook(w, res) ==
    /\ bw[w].born = "yes"
    /\ LET s == bw[w].share
           inc == IncomingHome(s)
           fin == FinalHome(s)
           madedirs == make_dirs(dirs, dirname(fin))
           moved == rename_files(files, inc, fin)
       IN IF bw[w].closed
          THEN /\ lastCall' = Call("close", w, "PreconditionError")
               /\ UNCHANGED <<fsVars, bw, notified, committer>>
          ELSE IF ~path_exists(files, inc)
          THEN /\ dirs' = madedirs
               /\ lastCall' = Call("close", w, "OSError")
               /\ UNCHANGED <<files, bw, notified, committer>>
          ELSE /\ files' = moved
               /\ dirs' = close_rmdirs(moved, madedirs, inc)
               /\ bw' = [bw EXCEPT ![w].sharefile = FALSE,
                                   ![w].closed = TRUE]
               /\ notified' = [notified EXCEPT
                                 ![w] = Append(@, Len(moved[fin]))]
               /\ committer' = [committer EXCEPT ![s] = w]
               /\ lastCall' = Call("close", w, res)
    /\ UNCHANGED <<written, rd, now, restVars, acctVars>>

\* BucketWriter.remote_close, apart from what ss.bucket_writer_closed does:
\* res is the outcome of that last call, made after the rename, the rmdirs
\* and the closing of the writer.
close_effect(w, res) ==
    /\ bw[w].born = "yes"
    /\ LET s == bw[w].share
           inc == IncomingHome(s)
           fin == FinalHome(s)
           madedirs == make_dirs(dirs, dirname(fin))
           moved == rename_files(files, inc, fin)
       IN IF bw[w].closed
          THEN /\ lastCall' = Call("close", w, "PreconditionError")
               /\ UNCHANGED <<fsVars, bw, notified, committer>>
          ELSE IF ~path_exists(files, inc)
          THEN /\ dirs' = madedirs
               /\ lastCall' = Call("close", w, "OSError")
               /\ UNCHANGED <<files, bw, notified, committer>>
          ELSE /\ files' = moved
               /\ dirs' = close_rmdirs(moved, madedirs, inc)
               /\ bw' = [bw EXCEPT ![w].sharefile = FALSE,
                                   ![w].closed = TRUE,
                                   ![w].hooked = FALSE]
               /\ notified' = [notified EXCEPT
                                 ![w] = Append(@, Len(moved[fin]))]
               /\ committer' = [committer EXCEPT ![s] = w]
               /\ lastCall' = Call("close", w, res)
    /\ UNCHANGED <<written, rd, now, restVars, acctVars>>

\* BucketWriter.remote_close, the server only noting the final length.
remote_close(w) ==
    /\ close_effect(w, "ok")
    /\ UNCHANGED dbVars

\* Mutant: _abort does not tell the server.
abort_effect_silent(w, op) ==
    LET home == IncomingHome(bw[w].share)
        removed == [files EXCEPT ![home] = NoFile]
        parent == dirname(home)
    IN IF ~path_exists(files, home)
       THEN /\ bw' = [bw EXCEPT ![w].hooked = FALSE]
            /\ lastCall' = Call(op, w, "OSError")
            /\ UNCHANGED <<fsVars, notified, written>>
       ELSE /\ files' = removed
            /\ dirs' = IF dir_is_empty(removed, dirs, parent)
                       THEN dirs \ {parent} ELSE dirs
            /\ bw' = [bw EXCEPT ![w].sharefile = FALSE,
                                ![w].closed = TRUE,
                                ![w].hooked = FALSE]
            /\ notified' = notified
            /\ written' = [written EXCEPT ![w] = NoWrites]
            /\ lastCall' = Call(op, w, "ok")

\* BucketWriter._abort on a writer that is not closed: os.remove of the
\* staged file, rmdir of its parent when that is now empty, then closed and
\* the server told 0 bytes.  os.remove of a missing file raises, and then
\* nothing else of _abort happens.  Either way the disconnect hook is gone:
\* remote_abort has unregistered it, or it has just fired.
abort_effect(w, op) ==
    LET home == IncomingHome(bw[w].share)
        removed == [files EXCEPT ![home] = NoFile]
        parent == dirname(home)
    IN IF ~path_exists(files, home)
       THEN /\ bw' = [bw EXCEPT ![w].hooked = FALSE]
            /\ lastCall' = Call(op, w, "OSError")
            /\ UNCHANGED <<fsVars, notified, written>>
       ELSE /\ files' = removed
            /\ dirs' = IF dir_is_empty(removed, dirs, parent)
                       THEN dirs \ {parent} ELSE dirs
            /\ bw' = [bw EXCEPT ![w].sharefile = FALSE,
                                ![w].closed = TRUE,
                                ![w].hooked = FALSE]
            /\ notified' = [notified EXCEPT ![w] = Append(@, 0)]
            /\ written' = [written EXCEPT ![w] = NoWrites]
            /\ lastCall' = Call(op, w, "ok")

\* Mutant: _abort does not return early on a closed writer.
remote_abort_unguarded(w) ==
    /\ bw[w].born = "yes"
    /\ abort_effect(w, "abort")
    /\ UNCHANGED <<committer, rd, dbVars, now, restVars, acctVars>>

\* BucketWriter.remote_abort: on a closed writer it returns without effect.
remote_abort(w) ==
    /\ bw[w].born = "yes"
    /\ IF bw[w].closed
       THEN /\ lastCall' = Call("abort", w, "ok")
            /\ UNCHANGED <<fsVars, bw, notified, written>>
       ELSE abort_effect(w, "abort")
    /\ UNCHANGED <<committer, rd, dbVars, now, restVars, acctVars>>

\* BucketWriter._disconnected: the canary's connection is lost.  The hook
\* fires once, for every writer whose hook is still registered.
disconnected(w) ==
    /\ bw[w].hooked
    /\ IF bw[w].closed
       THEN /\ bw' = [bw EXCEPT ![w].hooked = FALSE]
            /\ lastCall' = Call("disconnect", w, "ok")
            /\ UNCHANGED <<fsVars, notified, written>>
       ELSE abort_effect(w, "disconnect")
    /\ UNCHANGED <<committer, rd, dbVars, now, restVars, acctVars>>


\* ---------------------------------------------------------- bucket reader

\* BucketReader.__init__ on the committed path of share s: ShareFile(path)
\* opens the file and checks its header.  When that raises, the caller gets
\* no new reader and keeps the one it had.
BucketReader_init(r, s) ==
    /\ LET content == files[FinalHome(s)]
           res == IF content = NoFile THEN "IOError"
                  ELSE ShareFile_open(content)
       IN /\ rd' = IF res = "ok" THEN [rd EXCEPT ![r] = s] ELSE rd
          /\ lastCall' = Call("open", r, res)
    /\ UNCHANGED <<fsVars, bwVars, dbVars, now, restVars, acctVars>>

\* BucketReader.remote_read: read_share_data opens the file by its path.
remote_read(r, offset, length) ==
    /\ rd[r] # NoShare
    /\ LET content == files[FinalHome(rd[r])]
       IN lastCall' = IF content = NoFile
                      THEN Call("read", r, "IOError")
                      ELSE CallData("read", r, "ok",
                                    read_share_data(content, offset, length))
    /\ UNCHANGED <<fsVars, bwVars, rd, dbVars, now, restVars, acctVars>>

\* ------------------------------------------------- out-of-band file changes

\* Share files an administrator may copy into the share directory: a
\* version-1 share, a share of another container version, and files that
\* end after the first eight bytes of the header.
OobContents ==
    { share_header(1) \o <<1>>,
      pack_L(2) \o pack_L(1) \o pack_L(0) \o <<1>>,
      pack_L(1) \o pack_L(0),
      pack_L(2) \o pack_L(0) }

\* The share an administrator copies in.
OobShare == <<"ab1", "0">>

\* The administrator removes a committed share file (/bin/rm).
oob_remove(s) ==
    /\ path_exists(files, FinalHome(s))
    /\ files' = [files EXCEPT ![FinalHome(s)] = NoFile]
    /\ committer' = [committer EXCEPT ![s] = "-"]
    /\ lastCall' = Call("rm", "admin", "ok")
    /\ UNCHANGED <<dirs, bw, written, notified, rd, dbVars, now, restVars, acctVars>>

\* The administrator copies a share file into place (scp).
oob_place(s, content) ==
    /\ ~path_exists(files, FinalHome(s))
    /\ files' = [files EXCEPT ![FinalHome(s)] = content]
    /\ dirs' = make_dirs(dirs, dirname(FinalHome(s)))
    /\ committer' = [committer EXCEPT ![s] = "admin"]
    /\ lastCall' = Call("scp", "admin", "ok")
    /\ UNCHANGED <<bw, written, notified, rd, dbVars, now, restVars, acctVars>>

\* ------------------------------------------------------------ lease database

\* Largest id the shares table hands out in the model.
MaxRowId == 2

\* int(sharefile) of a share file's name.
shnum_of(name) == CASE name = "0" -> 0 [] name = "1" -> 1 [] OTHER -> -1

\* An INSERT ... VALUES with no column list succeeds only when it supplies
\* one value per column of the table.
insert_values_ok(ncols, nvals) == ncols = nvals

\* The lease rows add_share's second INSERT adds for the new share id.
starter_leases(shareid) ==
    IF insert_values_ok(LEASES_COLUMNS, ADD_SHARE_LEASE_VALUES)
    THEN {[share_id |-> shareid,
           account_id |-> STARTER_LEASE_ACCOUNTID,
           expiration_time |-> now + STARTER_LEASE_DURATION]}
    ELSE {}

\* LeaseDB.add_share: the outcome, and its effect on the tables.  The
\* unique index on (storage_index, shnum) refuses a second row; the row of
\* the first INSERT stays in the open transaction when the second raises.
add_share_result(prefix, si, shnum, size) ==
    IF \E r \in dbShares : r.storage_index = si /\ r.shnum = shnum
    THEN "IntegrityError"
    ELSE IF ~insert_values_ok(LEASES_COLUMNS, ADD_SHARE_LEASE_VALUES)
    THEN "OperationalError"
    ELSE "ok"

add_share(prefix, si, shnum, size) ==
    /\ dbDirty' = TRUE
    /\ IF add_share_result(prefix, si, shnum, size) = "IntegrityError"
       THEN UNCHANGED <<dbShares, dbLeases, dbNextId>>
       ELSE /\ dbShares' = dbShares \cup
                  {[id |-> dbNextId, prefix |-> prefix, storage_index |-> si,
                    shnum |-> shnum, size |-> size]}
            /\ dbNextId' = dbNextId + 1
            /\ dbLeases' = dbLeases \cup starter_leases(dbNextId)

\* LeaseDB.get_shares_for_prefix.
get_shares_for_prefix(prefix) ==
    {<<r.storage_index, r.shnum>> : r \in {x \in dbShares : x.prefix = prefix}}

\* The shares table after LeaseDB.remove_deleted_shares(shareids).
remove_deleted_shares(shareids) ==
    {r \in dbShares : <<r.storage_index, r.shnum>> \notin shareids}

\* size_of_disk_file: st_blocks * 512, on a filesystem of 512-byte blocks.
size_of_disk_file(content) == ((Len(content) + 511) \div 512) * 512

\* ------------------------------------------------------- accounting crawler

Prefixes == {"ab"}

\* The (storage_index, shnum) pairs process_prefixdir finds on disk.
disk_shares(prefix) ==
    {<<p[2], shnum_of(p[3])>> :
        p \in {q \in FilePaths : Len(q) = 3 /\ q[1] = prefix
                                 /\ path_exists(files, q)}}

\* Mutant: a crawler that takes the index as the authority and unlinks the
\* share files it has no row for.
process_prefixdir_unlinking(prefix) ==
    LET on_disk == disk_shares(prefix)
        in_db == get_shares_for_prefix(prefix)
    IN /\ files' = [p \in FilePaths |->
                      IF /\ Len(p) = 3 /\ p[1] = prefix
                         /\ <<p[2], shnum_of(p[3])>> \in on_disk \ in_db
                      THEN NoFile ELSE files[p]]
       /\ dbShares' = remove_deleted_shares(in_db \ on_disk)
       /\ lastCall' = Call("crawl", prefix, "ok")
       /\ UNCHANGED <<dirs, bwVars, rd, now, restVars, acctVars, dbLeases, dbNextId, dbDirty,
                      dbDurable>>

\* AccountingCrawler.process_prefixdir.  The first add_share that raises
\* ends the slice: the rows added so far stay in the open transaction, and
\* neither the deletions nor the commit happen.
process_prefixdir(prefix) ==
    LET on_disk == disk_shares(prefix)
        in_db == get_shares_for_prefix(prefix)
        new_shares == on_disk \ in_db
        deleted_shares == in_db \ on_disk
    IN /\ IF new_shares # {}
          THEN \E sh \in new_shares :
                 LET p == CHOOSE q \in FilePaths :
                            /\ Len(q) = 3 /\ q[1] = prefix /\ q[2] = sh[1]
                            /\ shnum_of(q[3]) = sh[2]
                     size == size_of_disk_file(files[p])
                 IN /\ dbNextId <= MaxRowId
                    /\ add_share(prefix, sh[1], sh[2], size)
                    /\ lastCall' = Call("crawl", prefix,
                                        add_share_result(prefix, sh[1], sh[2], size))
                    /\ UNCHANGED dbDurable
          ELSE /\ dbShares' = remove_deleted_shares(deleted_shares)
               /\ dbDirty' = (dbDirty \/ deleted_shares # {})
               /\ dbDurable' = IF dbDirty'
                               THEN [shares |-> dbShares', leases |-> dbLeases]
                               ELSE dbDurable
               /\ lastCall' = Call("crawl", prefix, "ok")
               /\ UNCHANGED <<dbLeases, dbNextId>>
       /\ UNCHANGED <<fsVars, bwVars, rd, now, restVars, acctVars>>

\* LeaseDB.commit, called on its own: self._db.commit() runs when _dirty is
\* set, and nothing in the class clears _dirty again.  data tells whether
\* the connection's commit was called.
LeaseDB_commit ==
    /\ dbDurable' = IF dbDirty
                    THEN [shares |-> dbShares, leases |-> dbLeases]
                    ELSE dbDurable
    /\ lastCall' = CallData("commit", "leasedb", "ok",
                            IF dbDirty THEN <<"db.commit">> ELSE <<>>)
    /\ UNCHANGED <<fsVars, bwVars, rd, dbShares, dbLeases, dbNextId, dbDirty,
                   now, restVars, acctVars>>

\* size_of_disk_file's os.stat on a file that is no longer there.
stat_result(content) == IF content = NoFile THEN "OSError" ELSE "ok"

\* AccountingCrawler.process_prefixdir when the administrator removes the
\* new share file of share gone after the slice has listed the directory and
\* before it has called size_of_disk_file on it.  The loop over new_shares
\* takes the shares in no particular order: it ends at gone with the OSError
\* of os.stat, or earlier at another new share whose add_share raises.
process_prefixdir_racing(prefix, gone) ==
    LET on_disk == disk_shares(prefix)
        in_db == get_shares_for_prefix(prefix)
        new_shares == on_disk \ in_db
        removed == [files EXCEPT ![FinalHome(gone)] = NoFile]
    IN /\ <<gone[1], shnum_of(gone[2])>> \in new_shares
       /\ files' = removed
       /\ committer' = [committer EXCEPT ![gone] = "-"]
       /\ \E sh \in new_shares :
            LET p == CHOOSE q \in FilePaths :
                       /\ Len(q) = 3 /\ q[1] = prefix /\ q[2] = sh[1]
                       /\ shnum_of(q[3]) = sh[2]
            IN IF stat_result(removed[p]) = "ok"
               THEN /\ dbNextId <= MaxRowId
                    /\ add_share(prefix, sh[1], sh[2],
                                 size_of_disk_file(removed[p]))
                    /\ lastCall' =
                          Call("crawl", prefix,
                               add_share_result(prefix, sh[1], sh[2],
                                                size_of_disk_file(removed[p])))
               ELSE /\ lastCall' = Call("crawl", prefix, stat_result(removed[p]))
                    /\ UNCHANGED <<dbShares, dbLeases, dbNextId, dbDirty>>
       /\ UNCHANGED <<dirs, bw, written, notified, rd, dbDurable, now,
                      restVars, acctVars>>

\* AccountingCrawler.set_lease_expiration(enable, expire_time=None).
set_lease_expiration(enable, expire_time) ==
    /\ crawler' = [has_do_expire |-> TRUE, do_expire |-> enable,
                   expire_time |-> expire_time]
    /\ lastCall' = CallData("set_lease_expiration", "-", "ok",
                            <<enable, expire_time>>)
    /\ UNCHANGED <<fsVars, bwVars, rd, dbVars, now, acctVars, dbfile,
                   attrfile, client>>

\* ----------------------------------------------------------- storage server

\* LeaseDB.change_share_size: the shares table after the UPDATE.
change_share_size(si, shnum, size) ==
    {IF r.storage_index = si /\ r.shnum = shnum
     THEN [r EXCEPT !.size = size] ELSE r : r \in dbShares}

\* Share s has a row in the shares table.
share_registered(s) ==
    <<s[1], shnum_of(s[2])>> \in get_shares_for_prefix(Prefix(s[1]))

\* StorageServer.bucket_writer_closed for a committed share of filelen
\* bytes: the server registers the share's size in the lease database with
\* a starter lease.  It looks for the row first (add_share leaves the
\* uniqueness of (storage_index, shnum) to its caller), and calls
\* LeaseDB.add_share for a share that has none.
bucket_writer_closed_result(s, filelen) ==
    IF share_registered(s) THEN "ok"
    ELSE add_share_result(Prefix(s[1]), s[1], shnum_of(s[2]), filelen)

bucket_writer_closed(s, filelen) ==
    /\ IF share_registered(s)
       THEN /\ dbShares' = change_share_size(s[1], shnum_of(s[2]), filelen)
            /\ dbDirty' = TRUE
            /\ UNCHANGED <<dbLeases, dbNextId>>
       ELSE add_share(Prefix(s[1]), s[1], shnum_of(s[2]), filelen)
    /\ UNCHANGED dbDurable

\* BucketWriter.remote_close with the server registering the share: what
\* bucket_writer_closed raises, remote_close raises, the share already
\* renamed and the writer already closed.
remote_close_registering(w) ==
    LET s == bw[w].share
        inc == IncomingHome(s)
    IN IF bw[w].born = "yes" /\ ~bw[w].closed /\ path_exists(files, inc)
       THEN /\ close_effect(w, bucket_writer_closed_result(s, Len(files[inc])))
            /\ bucket_writer_closed(s, Len(files[inc]))
       ELSE remote_close(w)

\* --------------------------------------------------------------- accountant

\* ord() of the characters the account names are made of.
ord(c) ==
    CASE c = "LF" -> 10 [] c = " " -> 32 [] c = "+" -> 43 [] c = "-" -> 45
      [] c = "." -> 46 [] c = "/" -> 47 [] c = "0" -> 48 [] c = ":" -> 58
      [] c = "_" -> 95 [] c = "a" -> 97 [] c = "b" -> 98 [] c = "m" -> 109
      [] c = "n" -> 110 [] c = "o" -> 111 [] c = "p" -> 112 [] c = "s" -> 115
      [] c = "u" -> 117 [] c = "v" -> 118 [] c = "x" -> 120 [] c = "y" -> 121

\* The character class [a-zA-Z0-9+-_] as the re module reads it: a-z, A-Z,
\* 0-9, and the range from "+" to "_".
in_char_class(c) ==
    \/ ord(c) >= 97 /\ ord(c) <= 122
    \/ ord(c) >= 65 /\ ord(c) <= 90
    \/ ord(c) >= 48 /\ ord(c) <= 57
    \/ ord(c) >= 43 /\ ord(c) <= 95

\* re.search(r'^[a-zA-Z0-9+-_]+$', s): one or more characters of the class
\* up to the end of the string, where $ also matches before a final newline.
re_search(s) ==
    LET body == IF Len(s) > 0 /\ s[Len(s)] = "LF"
                THEN SubSeq(s, 1, Len(s) - 1) ELSE s
    IN /\ Len(body) > 0
       /\ \A i \in 1..Len(body) : in_char_class(body[i])

\* The node's setup of the accountant, which Accountant.__init__ leaves
\* out: the accounts directory with its next_ownernum file, accounts created
\* on demand, no anonymous account yet.
accountant_setup ==
    /\ accountant.accountsdir = "unset"
    /\ accountant' = [accountant EXCEPT !.accountsdir = "accounts",
                                        !.create_if_missing = "yes",
                                        !.anonymous_account = "None"]
    /\ accounts_fs' = [accounts_fs EXCEPT !.next_ownernum = 1]
    /\ lastCall' = Call("setup", "accountant", "ok")
    /\ UNCHANGED <<fsVars, bwVars, rd, dbVars, now, restVars, handles>>

\* Accountant.get_ownernum_by_pubkey: its outcome, the owner number it
\* returns (NoNumber for None) and the accounts directory afterwards.
get_ownernum_by_pubkey(pubkey_vs) ==
    LET e == accounts_fs.entries[pubkey_vs]
        next_ownernum == accounts_fs.next_ownernum
        raises(x) == [res |-> x, ownernum |-> NoNumber, fs |-> accounts_fs]
    IN IF ~re_search(pubkey_vs) THEN raises("BadAccountName")
       ELSE IF \E i \in 1..Len(pubkey_vs) : pubkey_vs[i] \in {".", "/"}
       THEN raises("AssertionError")
       ELSE IF accountant.accountsdir = "unset" THEN raises("AttributeError")
       ELSE IF ~e.dir
       THEN IF accountant.create_if_missing = "unset"
            THEN raises("AttributeError")
            ELSE IF accountant.create_if_missing = "no"
            THEN [res |-> "ok", ownernum |-> NoNumber, fs |-> accounts_fs]
            ELSE IF next_ownernum = NoNumber THEN raises("IOError")
            ELSE [res |-> "ok", ownernum |-> next_ownernum,
                  fs |-> [next_ownernum |-> next_ownernum + 1,
                          entries |-> [accounts_fs.entries EXCEPT
                             ![pubkey_vs] = [NoEntry EXCEPT
                                               !.dir = TRUE,
                                               !.ownernum = next_ownernum,
                                               !.created = now]]]]
       ELSE IF e.ownernum = NoNumber THEN raises("IOError")
       ELSE [res |-> "ok", ownernum |-> e.ownernum, fs |-> accounts_fs]

\* get_ownernum_by_pubkey statement by statement, for the crash that can
\* come between two of its writes.  accountant.call is the frame of the
\* call: the statement it has reached, its pubkey_vs and its local
\* next_ownernum.  Each _write is a write of fn.tmp and a rename.

\* Largest value of accounts/next_ownernum in the model.
MaxOwnernum == 4

\* The names accounts are asked for: "pub-v0-a", "anonymous", "a:b", "../x".
CreateNames == {PubA, Anonymous, <<"a", ":", "b">>, <<".", ".", "/", "x">>}

\* The call finds no account directory and goes on to create one.
creates(pubkey_vs) ==
    /\ re_search(pubkey_vs)
    /\ \A i \in 1..Len(pubkey_vs) : pubkey_vs[i] \notin {".", "/"}
    /\ accountant.accountsdir # "unset"
    /\ ~accounts_fs.entries[pubkey_vs].dir
    /\ accountant.create_if_missing = "yes"
    /\ accounts_fs.next_ownernum # NoNumber

idle_call(pubkey_vs) ==
    [pc |-> "idle", name |-> pubkey_vs, next_ownernum |-> NoNumber]

\* Mutant: next_ownernum is read and not written back.
bump_next_ownernum_never(fs) == fs

\* next_ownernum = int(self._read("next_ownernum")) and
\* self._write(str(next_ownernum+1), "next_ownernum").
bump_next_ownernum(fs) ==
    [fs EXCEPT !.next_ownernum = fs.next_ownernum + 1]

\* get_ownernum_by_pubkey(pubkey_vs) is called.  When it has an account to
\* create it reads and bumps next_ownernum; otherwise it runs to its end:
\* it raises, returns None, or reads the ownernum of the directory it finds.
get_ownernum_call(pubkey_vs) ==
    /\ accountant.call.pc = "idle"
    /\ IF creates(pubkey_vs)
       THEN /\ accounts_fs.next_ownernum < MaxOwnernum
            /\ accounts_fs' = bump_next_ownernum(accounts_fs)
            /\ accountant' = [accountant EXCEPT
                  !.call = [pc |-> "mkdir", name |-> pubkey_vs,
                            next_ownernum |-> accounts_fs.next_ownernum]]
            /\ lastCall' = Call("get_ownernum", "accountant", "running")
       ELSE LET r == get_ownernum_by_pubkey(pubkey_vs)
            IN /\ accounts_fs' = r.fs
               /\ accountant' = [accountant EXCEPT
                     !.call = idle_call(pubkey_vs)]
               /\ lastCall' = CallData("get_ownernum", "accountant", r.res,
                                       <<r.ownernum>>)
    /\ UNCHANGED <<fsVars, bwVars, rd, dbVars, now, restVars, handles>>

\* os.mkdir(accountdir).
create_mkdir ==
    /\ accountant.call.pc = "mkdir"
    /\ accounts_fs' = [accounts_fs EXCEPT
          !.entries[accountant.call.name] = [NoEntry EXCEPT !.dir = TRUE]]
    /\ accountant' = [accountant EXCEPT !.call.pc = "ownernum"]
    /\ lastCall' = Call("mkdir", "accountant", "running")
    /\ UNCHANGED <<fsVars, bwVars, rd, dbVars, now, restVars, handles>>

\* self._write(str(next_ownernum), pubkey_vs, "ownernum").
create_write_ownernum ==
    /\ accountant.call.pc = "ownernum"
    /\ accounts_fs' = [accounts_fs EXCEPT
          !.entries[accountant.call.name].ownernum
             = accountant.call.next_ownernum]
    /\ accountant' = [accountant EXCEPT !.call.pc = "created"]
    /\ lastCall' = Call("write_ownernum", "accountant", "running")
    /\ UNCHANGED <<fsVars, bwVars, rd, dbVars, now, restVars, handles>>

\* self._write(str(int(time.time())), pubkey_vs, "created").
create_write_created ==
    /\ accountant.call.pc = "created"
    /\ accounts_fs' = [accounts_fs EXCEPT
          !.entries[accountant.call.name].created = now]
    /\ accountant' = [accountant EXCEPT !.call.pc = "read"]
    /\ lastCall' = Call("write_created", "accountant", "running")
    /\ UNCHANGED <<fsVars, bwVars, rd, dbVars, now, restVars, handles>>

\* ownernum = int(self._read(pubkey_vs, "ownernum")); return ownernum.
create_return ==
    /\ accountant.call.pc = "read"
    /\ accountant' = [accountant EXCEPT !.call.pc = "idle"]
    /\ lastCall' = CallData("get_ownernum", "accountant", "ok",
          <<accounts_fs.entries[accountant.call.name].ownernum>>)
    /\ UNCHANGED <<fsVars, bwVars, rd, dbVars, now, restVars, handles,
                   accounts_fs>>

\* The process dies in the middle of get_ownernum_by_pubkey and the node
\* is started again: the files stay, the objects are new.
create_crash ==
    /\ accountant.call.pc # "idle"
    /\ accountant' = [accountant EXCEPT
          !.call = idle_call(<<>>),
          !.active_accounts = [n \in PubkeyStrings |-> 0]]
    /\ lastCall' = Call("crash", "accountant", "ok")
    /\ UNCHANGED <<fsVars, bwVars, rd, dbVars, now, restVars, handles,
                   accounts_fs>>

NextCreate ==
    \/ accountant_setup
    \/ \E n \in CreateNames : get_ownernum_call(n)
    \/ create_mkdir
    \/ create_write_ownernum
    \/ create_write_created
    \/ create_return
    \/ create_crash

SpecCreate == Init /\ [][NextCreate]_vars

\* The Account object get_account makes, held by the caller it is returned
\* to: not connected, and no reverse reference asked for (pending_rx).
\* connection is the connection self.connection refers to (0 for None),
\* live the connections whose disconnect notification calls _disconnected.
new_account(pubkey_vs, ownernum) ==
    [name |-> pubkey_vs, owner_num |-> ownernum, state |-> "held",
     connected |-> FALSE, pending_rx |-> FALSE,
     connected_since |-> NoNumber, connection |-> 0, live |-> {}]

\* Mutant: get_account makes a new Account on every call.
get_account_always_new(pubkey_vs) ==
    LET r == get_ownernum_by_pubkey(pubkey_vs)
    IN /\ r.res = "ok"
       /\ Len(handles) < MaxHandles
       /\ accounts_fs' = r.fs
       /\ handles' = Append(handles, new_account(pubkey_vs, r.ownernum))
       /\ accountant' = [accountant EXCEPT
                           !.active_accounts[pubkey_vs] = Len(handles) + 1]
       /\ lastCall' = CallData("get_account", "accountant", "ok",
                               <<pubkey_vs, Len(handles) + 1, r.ownernum>>)
       /\ UNCHANGED <<fsVars, bwVars, rd, dbVars, now, restVars>>

\* Accountant.get_account.  The result is the Account of the weak table's
\* entry when there is one, a new Account otherwise; the caller holds it.
get_account(pubkey_vs) ==
    LET r == get_ownernum_by_pubkey(pubkey_vs)
        h == accountant.active_accounts[pubkey_vs]
    IN /\ accounts_fs' = r.fs
       /\ IF r.res # "ok"
          THEN /\ lastCall' = CallData("get_account", "accountant", r.res,
                                       <<pubkey_vs>>)
               /\ UNCHANGED <<accountant, handles>>
          ELSE IF h # 0
          THEN /\ handles' = [handles EXCEPT ![h].state = "held"]
               /\ lastCall' = CallData("get_account", "accountant", "ok",
                                       <<pubkey_vs, h, handles[h].owner_num>>)
               /\ UNCHANGED accountant
          ELSE /\ Len(handles) < MaxHandles
               /\ handles' = Append(handles,
                                    new_account(pubkey_vs, r.ownernum))
               /\ accountant' = [accountant EXCEPT
                     !.active_accounts[pubkey_vs] = Len(handles) + 1]
               /\ lastCall' = CallData("get_account", "accountant", "ok",
                     <<pubkey_vs, Len(handles) + 1, r.ownernum>>)
       /\ UNCHANGED <<fsVars, bwVars, rd, dbVars, now, restVars>>

\* Accountant.get_anonymous_account: the singleton of owner number 0.
get_anonymous_account ==
    /\ IF accountant.anonymous_account = "unset"
          \/ (accountant.anonymous_account = "None"
              /\ accountant.accountsdir = "unset")
       THEN /\ lastCall' = CallData("get_anonymous_account", "accountant",
                                    "AttributeError", <<>>)
            /\ UNCHANGED accountant
       ELSE /\ accountant' = [accountant EXCEPT !.anonymous_account = "made"]
            /\ lastCall' = CallData("get_anonymous_account", "accountant",
                                    "ok", <<Anonymous, 0, 0>>)
    /\ UNCHANGED <<fsVars, bwVars, rd, dbVars, now, restVars, accounts_fs, handles>>

\* The caller of get_account drops its reference to the Account.
release_account(h) ==
    /\ handles[h].state = "held"
    /\ handles' = [handles EXCEPT ![h].state = "idle"]
    /\ lastCall' = Call("release", "accountant", "ok")
    /\ UNCHANGED <<fsVars, bwVars, rd, dbVars, now, restVars, accountant, accounts_fs>>

\* An Account nobody refers to is garbage-collected, and its entry of the
\* WeakValueDictionary goes with it.
collect_account(h) ==
    /\ handles[h].state = "idle"
    /\ handles' = [handles EXCEPT ![h].state = "collected"]
    /\ accountant' = [accountant EXCEPT
                        !.active_accounts[handles[h].name] = 0]
    /\ lastCall' = Call("collect", "accountant", "ok")
    /\ UNCHANGED <<fsVars, bwVars, rd, dbVars, now, restVars, accounts_fs>>

\* ---------------------------------------------------------- account window

\* The longest nickname set_nickname takes.
NICKNAME_MAX == 1000

\* The nicknames a peer's message asks for, and len() of each.
Nicknames == {"alice", "bob", "long"}
nickname_len(n) ==
    CASE n = "alice" -> 5 [] n = "bob" -> 3 [] n = "long" -> NICKNAME_MAX + 1

\* The address connection_from finds for the peer.
PeerAddress == "loopback"

\* The connections of peers to one account that are alive at a time.
MaxConns == 2

\* keyutil.parse_pubkey: a public key string is "pub-v0-" and the key.
parse_pubkey(pubkey_vs) ==
    IF Len(pubkey_vs) > 7 /\ SubSeq(pubkey_vs, 1, 7) = SubSeq(PubA, 1, 7)
    THEN "ok" ELSE "ValueError"

\* vk.verify(sig, msg): raises unless sig is the key's signature of msg.
verify(sig_valid) == IF sig_valid THEN "ok" ELSE "BadSignatureError"

\* What Accountant.get_account(pubkey_vs) does and returns: the outcome,
\* the accounts directory, the accountant and the Account objects
\* afterwards, and the Account returned (h, 0 when it raises).
get_account_result(pubkey_vs) ==
    LET r == get_ownernum_by_pubkey(pubkey_vs)
        h == accountant.active_accounts[pubkey_vs]
    IN IF r.res # "ok"
       THEN [res |-> r.res, fs |-> r.fs, accountant |-> accountant,
             handles |-> handles, h |-> 0]
       ELSE IF h # 0
       THEN [res |-> "ok", fs |-> r.fs, accountant |-> accountant,
             handles |-> [handles EXCEPT ![h].state = "held"], h |-> h]
       ELSE [res |-> "ok", fs |-> r.fs,
             accountant |-> [accountant EXCEPT
                 !.active_accounts[pubkey_vs] = Len(handles) + 1],
             handles |-> Append(handles, new_account(pubkey_vs, r.ownernum)),
             h |-> Len(handles) + 1]

\* Account.set_nickname(nickname) on the account directory of pubkey_vs:
\* the outcome, and the accounts directory afterwards.
set_nickname(fs, pubkey_vs, nickname) ==
    IF nickname_len(nickname) > NICKNAME_MAX
    THEN [res |-> "ValueError", fs |-> fs]
    ELSE IF ~fs.entries[pubkey_vs].dir
    THEN [res |-> "IOError", fs |-> fs]
    ELSE [res |-> "ok",
          fs |-> [fs EXCEPT !.entries[pubkey_vs].nickname = nickname]]

\* The rest of remote_get_account once the signature has been checked: the
\* account is resolved, the nickname of the message is set, and the
\* reference to the peer's receiver is asked for.  A message without a
\* "nickname" key (nickname = NoString) fails at msg_d["nickname"].
window_resolve(pubkey_vs, nickname, data) ==
    LET a == get_account_result(pubkey_vs)
        n == IF nickname = NoString
             THEN [res |-> "KeyError", fs |-> a.fs]
             ELSE set_nickname(a.fs, pubkey_vs, nickname)
    IN /\ Len(a.handles) <= MaxHandles
       /\ accountant' = a.accountant
       /\ accounts_fs' = IF a.res = "ok" THEN n.fs ELSE a.fs
       /\ handles' = IF a.res = "ok" /\ n.res = "ok"
                     THEN [a.handles EXCEPT ![a.h].pending_rx = TRUE]
                     ELSE a.handles
       /\ lastCall' = CallData("remote_get_account", "window",
                               IF a.res = "ok" THEN n.res ELSE a.res, data)

\* Mutant: the window resolves the account and sets the nickname whatever
\* vk.verify says.
remote_get_account_unverified(pubkey_vs, sig_valid, nickname) ==
    /\ sig_valid => parse_pubkey(pubkey_vs) = "ok"
    /\ window_resolve(pubkey_vs, nickname, <<pubkey_vs, sig_valid, nickname>>)
    /\ UNCHANGED <<fsVars, bwVars, rd, dbVars, now, restVars>>

\* AccountantWindow.remote_get_account(msg, sig, pubkey_vs), up to the
\* call of tub.getReference.  msg carries the nickname; sig_valid says
\* whether sig is the signature of msg by the key of pubkey_vs, which it
\* can only be for a string that is a key.
remote_get_account(pubkey_vs, sig_valid, nickname) ==
    LET data == <<pubkey_vs, sig_valid, nickname>>
    IN /\ sig_valid => parse_pubkey(pubkey_vs) = "ok"
       /\ IF parse_pubkey(pubkey_vs) # "ok"
          THEN /\ lastCall' = CallData("remote_get_account", "window",
                                       parse_pubkey(pubkey_vs), data)
               /\ UNCHANGED acctVars
          ELSE IF verify(sig_valid) # "ok"
          THEN /\ lastCall' = CallData("remote_get_account", "window",
                                       verify(sig_valid), data)
               /\ UNCHANGED acctVars
          ELSE window_resolve(pubkey_vs, nickname, data)
       /\ UNCHANGED <<fsVars, bwVars, rd, dbVars, now, restVars>>

\* Account.connection_from(rx) on an Account: rx is connection c.
connection_from(a, c) ==
    [a EXCEPT !.connected = TRUE,
              !.connected_since = now,
              !.connection = c,
              !.live = a.live \cup {c}]

\* _got_rx, the callback of tub.getReference: Account.connection_from marks
\* the account connected, writes last_connected_from and subscribes
\* _disconnected to the new connection.
got_rx(h) ==
    LET free == (1..MaxConns) \ handles[h].live
        c == CHOOSE x \in free : \A y \in free : x <= y
    IN /\ handles[h].pending_rx
       /\ free # {}
       /\ handles' = [handles EXCEPT
             ![h] = connection_from([handles[h] EXCEPT !.pending_rx = FALSE],
                                    c)]
       /\ accounts_fs' = [accounts_fs EXCEPT
             !.entries[handles[h].name].last_connected_from = PeerAddress]
       /\ lastCall' = Call("got_rx", "window", "ok")
       /\ UNCHANGED <<fsVars, bwVars, rd, dbVars, now, restVars, accountant>>

\* The errback of tub.getReference: the failure is logged.
getReference_failed(h) ==
    /\ handles[h].pending_rx
    /\ handles' = [handles EXCEPT ![h].pending_rx = FALSE]
    /\ lastCall' = Call("getReference", "window", "logged")
    /\ UNCHANGED <<fsVars, bwVars, rd, dbVars, now, restVars, accountant,
                   accounts_fs>>

\* Mutant: _disconnected leaves connected_since as it was.
disconnected_account_keeping_since(a) ==
    [a EXCEPT !.connected = FALSE,
              !.connection = 0]

\* Account._disconnected on an Account.
disconnected_account(a) ==
    [a EXCEPT !.connected = FALSE,
              !.connected_since = NoNumber,
              !.connection = 0]

\* Connection c of a peer is lost: the _disconnected that connection_from
\* subscribed to it runs, and writes last_seen.
Account_disconnected(h, c) ==
    /\ c \in handles[h].live
    /\ handles' = [handles EXCEPT
          ![h] = [disconnected_account(handles[h]) EXCEPT
                     !.live = handles[h].live \ {c}]]
    /\ accounts_fs' = [accounts_fs EXCEPT
          !.entries[handles[h].name].last_seen = now]
    /\ lastCall' = Call("disconnected", "account", "ok")
    /\ UNCHANGED <<fsVars, bwVars, rd, dbVars, now, restVars, accountant>>

\* Account.get_connection_status on Account h: the attributes are read
\* from the account directory (None when the file cannot be read), and
\* int() of a missing "created" raises.
connection_status(a, fs) ==
    LET e == fs.entries[a.name]
    IN [res |-> IF e.created = NoNumber THEN "TypeError" ELSE "ok",
        connected |-> a.connected,
        connected_since |-> a.connected_since,
        last_connected_from |-> e.last_connected_from,
        last_seen |-> e.last_seen,
        created |-> e.created]

get_connection_status(h) == connection_status(handles[h], accounts_fs)

\* ------------------------------------------------------ attribute files

\* The strings written to an attribute file of an account directory.
AttrStrings == {<<"0">>, <<"1">>, <<"1", "2">>, <<"b", "o", "b">>}

\* Account._write and Accountant._write, statement by statement, on one
\* attribute file fn and its fn + ".tmp".  attrfile.pc is the statement the
\* write has reached, attrfile.data the bytes of s+"\n", and attrfile.prev
\* what fn held when the write began.

\* f = open(tmpfn, "w"): the .tmp file is created, or emptied.
attr_open(s) ==
    /\ attrfile.pc = "idle"
    /\ attrfile' = [attrfile EXCEPT !.tmp = <<>>, !.pc = "open",
                                    !.data = s \o <<"LF">>,
                                    !.prev = attrfile.fn]
    /\ lastCall' = CallData("_write", "open", "ok", s)
    /\ UNCHANGED <<fsVars, bwVars, rd, dbVars, now, acctVars, dbfile,
                   crawler, client>>

\* Mutant: f.write on a file opened at fn itself.
attr_write_in_place(k) ==
    /\ attrfile.pc = "open"
    /\ k > Len(attrfile.tmp) /\ k <= Len(attrfile.data)
    /\ attrfile' = [attrfile EXCEPT !.tmp = SubSeq(attrfile.data, 1, k),
                                    !.fn = SubSeq(attrfile.data, 1, k)]
    /\ lastCall' = CallData("_write", "write", "ok", <<k>>)
    /\ UNCHANGED <<fsVars, bwVars, rd, dbVars, now, acctVars, dbfile,
                   crawler, client>>

\* f.write(s+"\n"): the bytes go through the file object's buffer, and the
\* first k of them have reached the .tmp file.
attr_write(k) ==
    /\ attrfile.pc = "open"
    /\ k > Len(attrfile.tmp) /\ k <= Len(attrfile.data)
    /\ attrfile' = [attrfile EXCEPT !.tmp = SubSeq(attrfile.data, 1, k)]
    /\ lastCall' = CallData("_write", "write", "ok", <<k>>)
    /\ UNCHANGED <<fsVars, bwVars, rd, dbVars, now, acctVars, dbfile,
                   crawler, client>>

\* f.close(): the .tmp file holds all the bytes.
attr_close ==
    /\ attrfile.pc = "open"
    /\ attrfile' = [attrfile EXCEPT !.tmp = attrfile.data, !.pc = "closed"]
    /\ lastCall' = Call("_write", "close", "ok")
    /\ UNCHANGED <<fsVars, bwVars, rd, dbVars, now, acctVars, dbfile,
                   crawler, client>>

\* os.rename(tmpfn, fn).
attr_rename ==
    /\ attrfile.pc = "closed"
    /\ attrfile' = [attrfile EXCEPT !.fn = attrfile.tmp, !.tmp = Absent,
                                    !.pc = "idle"]
    /\ lastCall' = Call("_write", "rename", "ok")
    /\ UNCHANGED <<fsVars, bwVars, rd, dbVars, now, acctVars, dbfile,
                   crawler, client>>

\* The process ends in the middle of a _write: the files stay as they are,
\* and a later _write starts from them.
attr_crash ==
    /\ attrfile.pc # "idle"
    /\ attrfile' = [attrfile EXCEPT !.pc = "idle"]
    /\ lastCall' = Call("_write", "crash", "ok")
    /\ UNCHANGED <<fsVars, bwVars, rd, dbVars, now, acctVars, dbfile,
                   crawler, client>>

\* Account._read of the file: None when there is no file, else its text
\* without the surrounding whitespace.
attr_read(content) ==
    IF content = Absent THEN <<>>
    ELSE IF Len(content) > 0 /\ content[Len(content)] = "LF"
    THEN SubSeq(content, 1, Len(content) - 1)
    ELSE content

NextAttr ==
    \/ \E s \in AttrStrings : attr_open(s)
    \/ \E v \in AttrStrings : \E k \in 1..(Len(v) + 1) : attr_write(k)
    \/ attr_close
    \/ attr_rename
    \/ attr_crash

SpecAttr == Init /\ [][NextAttr]_vars

\* The methods class LeaseDB defines.
LeaseDB_methods ==
    {"get_shares_for_prefix", "add_share", "remove_deleted_shares",
     "change_share_size", "commit"}

\* A call of a method that LeaseDB does not define: Python raises
\* AttributeError at the attribute lookup.
leasedb_call(method, args) ==
    /\ method \notin LeaseDB_methods
    /\ lastCall' = CallData(method, "leasedb", "AttributeError", args)
    /\ UNCHANGED <<fsVars, bwVars, rd, dbVars, now, restVars, acctVars>>

\* ------------------------------------------------------------ specification

\* The shares each writer may be created for: w1 uploads one share, w2 the
\* same share, its sibling of the same storage index, or a share of another
\* storage index of the same prefix.
WriterShares(w) == IF w = "w1" THEN {<<"ab1", "0">>} ELSE Shares

\* The allocated sizes: w1 uploads shares of every size up to MaxAlloc, w2
\* one-byte shares.
WriterSizes(w) == IF w = "w1" THEN 1..MaxAlloc ELSE {1}

Next ==
    \/ \E w \in Writers, s \in Shares, m \in 1..MaxAlloc :
          /\ s \in WriterShares(w)
          /\ m \in WriterSizes(w)
          /\ BucketWriter_init(w, s, m)
    \/ \E w \in Writers, o \in 0..MaxOffset, d \in DataChoices :
          remote_write(w, o, d)
    \/ \E w \in Writers : remote_close(w)
    \/ \E w \in Writers : remote_abort(w)
    \/ \E w \in Writers : disconnected(w)
    \/ \E r \in Readers, s \in Shares : BucketReader_init(r, s)
    \/ \E r \in Readers, o \in 0..MaxOffset, n \in ReadLengths :
          remote_read(r, o, n)
    \/ \E s \in Shares : oob_remove(s)
    \/ \E c \in OobContents : oob_place(OobShare, c)

Spec == Init /\ [][Next]_vars


\* The lease database and the crawler on their own: share files come and go
\* out of band, the crawler reconciles the one prefix, time passes.
MaxTime == 1

Tick ==
    /\ now < MaxTime
    /\ now' = now + 1
    /\ lastCall' = Call("tick", "-", "ok")
    /\ UNCHANGED <<fsVars, bwVars, rd, dbVars, acctVars, restVars>>

NextDB ==
    \/ \E s \in Shares, c \in OobContents : oob_place(s, c)
    \/ \E s \in Shares : oob_remove(s)
    \/ \E p \in Prefixes : process_prefixdir(p)
    \/ Tick

SpecDB == Init /\ [][NextDB]_vars

\* The lease database opened on a file an earlier run left behind:
\* LeaseDB.__init__ takes the tables as the file holds them.  The file is
\* empty, or holds the row of share ab1/0 with its starter lease while the
\* share file itself may since have been removed.
DbFiles ==
    {[shares |-> {}, leases |-> {}, nextid |-> 1],
     [shares |-> {[id |-> 1, prefix |-> "ab", storage_index |-> "ab1",
                   shnum |-> 0, size |-> 512]},
      leases |-> {[share_id |-> 1, account_id |-> STARTER_LEASE_ACCOUNTID,
                   expiration_time |-> STARTER_LEASE_DURATION]},
      nextid |-> 2]}

InitDbFile ==
    /\ \E db \in DbFiles :
         /\ dbShares = db.shares
         /\ dbLeases = db.leases
         /\ dbNextId = db.nextid
         /\ dbDurable = [shares |-> db.shares, leases |-> db.leases]
    /\ dbDirty = FALSE
    /\ now = 0

InitOnDbFile == InitFs /\ InitBuckets /\ InitDbFile /\ InitAccounts /\ InitRest

SpecDBFile == InitOnDbFile /\ [][NextDB]_vars

\* The crawler while the administrator adds and removes share files, also in
\* the middle of a slice.
NextRacing ==
    \/ \E s \in Shares, c \in OobContents : oob_place(s, c)
    \/ \E s \in Shares : oob_remove(s)
    \/ \E p \in Prefixes : process_prefixdir(p)
    \/ \E p \in Prefixes, s \in Shares : process_prefixdir_racing(p, s)

SpecRacing == Init /\ [][NextRacing]_vars

\* Bucket writers commit shares while the crawler runs its slices.  Every
\* share is under the one prefix, so a cycle of the crawler is one slice.
NextCommitting ==
    \/ \E w \in Writers, s \in Shares, m \in 1..MaxAlloc :
          /\ s \in WriterShares(w)
          /\ m \in WriterSizes(w)
          /\ BucketWriter_init(w, s, m)
    \/ \E w \in Writers : remote_close(w)
    \/ \E p \in Prefixes : process_prefixdir(p)

SpecCommitting == Init /\ [][NextCommitting]_vars

\* The account window: peers ask for their accounts with signed messages.
\* An Account that is connected, or whose receiver is being fetched, is
\* referred to by the connection's disconnect hook or by the callback, and
\* is not collected.
NextWindow ==
    \/ accountant_setup
    \/ \E n \in PubkeyStrings, v \in BOOLEAN, k \in Nicknames :
          remote_get_account(n, v, k)
    \/ \E h \in 1..MaxHandles : h <= Len(handles) /\ got_rx(h)
    \/ \E h \in 1..MaxHandles : h <= Len(handles) /\ getReference_failed(h)
    \/ \E h \in 1..MaxHandles, c \in 1..MaxConns :
          h <= Len(handles) /\ Account_disconnected(h, c)
    \/ \E h \in 1..MaxHandles : h <= Len(handles) /\ release_account(h)
    \/ \E h \in 1..MaxHandles :
          /\ h <= Len(handles)
          /\ handles[h].live = {} /\ ~handles[h].pending_rx
          /\ collect_account(h)

SpecWindow == Init /\ [][NextWindow]_vars

\* The crawler, and callers of LeaseDB.commit between its slices.
NextCommit ==
    \/ \E s \in Shares, c \in OobContents : oob_place(s, c)
    \/ \E s \in Shares : oob_remove(s)
    \/ \E p \in Prefixes : process_prefixdir(p)
    \/ LeaseDB_commit

SpecCommit == InitOnDbFile /\ [][NextCommit]_vars

\* The crawler with lease expiration: the cutoff is left out (None), or is
\* later than the expiration time of the starter lease the file holds.
ExpireTimes == {NoNumber, STARTER_LEASE_DURATION + 1}

NextExpire ==
    \/ \E e \in BOOLEAN, x \in ExpireTimes : set_lease_expiration(e, x)
    \/ \E s \in Shares, c \in OobContents : oob_place(s, c)
    \/ \E s \in Shares : oob_remove(s)
    \/ \E p \in Prefixes : process_prefixdir(p)

SpecExpire == InitOnDbFile /\ [][NextExpire]_vars

\* ------------------------------------------------------------------------
\* Opening the lease database.

\* The file is absent, or holds the version row of this schema or another one.
DbVersions == {NoNumber, SCHEMA_VERSION, SCHEMA_VERSION + 1}

EmptyTables == [shares |-> {}, leases |-> {}]

\* dbutil.get_db(dbfile, create_version=(schema, ver)): a file that does not
\* exist (NoNumber) gets the schema and the version row; a file whose version
\* row is ver is opened as it is; any other version row fails the open.
get_db(version, create_version) ==
    IF version = NoNumber
    THEN [res |-> "ok", version |-> create_version, created |-> TRUE]
    ELSE IF version = create_version
         THEN [res |-> "ok", version |-> version, created |-> FALSE]
         ELSE [res |-> "DBError", version |-> version, created |-> FALSE]

\* A LeaseDB.__init__ that runs the schema on every open: the tables of an
\* existing file are replaced with empty ones.
LeaseDB_init_recreating ==
    LET db == get_db(dbfile.version, SCHEMA_VERSION) IN
    /\ lastCall' = CallData("LeaseDB", "-", db.res, <<dbfile.version>>)
    /\ IF db.res = "ok"
       THEN /\ dbfile' = [version |-> db.version, open |-> TRUE]
            /\ dbDurable' = EmptyTables
            /\ dbShares' = {}
            /\ dbLeases' = {}
            /\ dbDirty' = FALSE
       ELSE /\ dbfile' = [dbfile EXCEPT !.open = FALSE]
            /\ dbShares' = dbDurable.shares
            /\ dbLeases' = dbDurable.leases
            /\ dbDirty' = FALSE
            /\ UNCHANGED dbDurable
    /\ UNCHANGED <<fsVars, bwVars, rd, dbNextId, now, acctVars, crawler,
                   attrfile, client>>

\* LeaseDB.__init__: get_db opens (or creates) the file, the object takes a
\* cursor on the new connection and starts clean.  The connection shows the
\* tables as the file holds them: what an earlier connection had not
\* committed is not there.  When get_db raises there is no LeaseDB object.
\* The AUTOINCREMENT counter is kept as it is, so no id is handed out twice.
LeaseDB_init ==
    LET db == get_db(dbfile.version, SCHEMA_VERSION) IN
    /\ lastCall' = CallData("LeaseDB", "-", db.res, <<dbfile.version>>)
    /\ IF db.res = "ok"
       THEN /\ dbfile' = [version |-> db.version, open |-> TRUE]
            /\ dbDurable' = IF db.created THEN EmptyTables ELSE dbDurable
            /\ dbShares' = IF db.created THEN {} ELSE dbDurable.shares
            /\ dbLeases' = IF db.created THEN {} ELSE dbDurable.leases
            /\ dbDirty' = FALSE
       ELSE /\ dbfile' = [dbfile EXCEPT !.open = FALSE]
            /\ dbShares' = dbDurable.shares
            /\ dbLeases' = dbDurable.leases
            /\ dbDirty' = FALSE
            /\ UNCHANGED dbDurable
    /\ UNCHANGED <<fsVars, bwVars, rd, dbNextId, now, acctVars, crawler,
                   attrfile, client>>

\* Out of band: the database file is removed, or its version row is
\* rewritten, while no LeaseDB holds it open.
oob_dbfile(version) ==
    /\ ~dbfile.open
    /\ version /= dbfile.version
    /\ dbfile' = [dbfile EXCEPT !.version = version]
    /\ dbDurable' = IF version = NoNumber THEN EmptyTables ELSE dbDurable
    /\ dbShares' = dbDurable'.shares
    /\ dbLeases' = dbDurable'.leases
    /\ lastCall' = CallData("oob_dbfile", "-", "ok", <<version>>)
    /\ UNCHANGED <<fsVars, bwVars, rd, dbNextId, dbDirty, now, acctVars,
                   crawler, attrfile, client>>

\* The process that holds the LeaseDB ends: the connection is gone and with
\* it what it had not committed.
process_exit ==
    /\ dbfile.open
    /\ dbfile' = [dbfile EXCEPT !.open = FALSE]
    /\ dbShares' = dbDurable.shares
    /\ dbLeases' = dbDurable.leases
    /\ dbDirty' = FALSE
    /\ lastCall' = Call("exit", "-", "ok")
    /\ UNCHANGED <<fsVars, bwVars, rd, dbNextId, dbDurable, now, acctVars,
                   crawler, attrfile, client>>

NextOpen ==
    \/ LeaseDB_init
    \/ process_exit
    \/ \E v \in DbVersions : oob_dbfile(v)
    \/ \E s \in Shares, c \in OobContents : oob_place(s, c)
    \/ \E s \in Shares : oob_remove(s)
    \/ \E p \in Prefixes : dbfile.open /\ process_prefixdir(p)

SpecOpen == InitOnDbFile /\ [][NextOpen]_vars

\* The accountant and the account operations of the lease database, as
\* test_accounts calls them.
AccountNames == {"one", "anonymous"}

NextAccounts ==
    \/ accountant_setup
    \/ \E n \in PubkeyStrings : get_account(n)
    \/ get_anonymous_account
    \/ \E h \in 1..MaxHandles : h <= Len(handles) /\ release_account(h)
    \/ \E h \in 1..MaxHandles : h <= Len(handles) /\ collect_account(h)
    \/ \E n \in AccountNames :
          leasedb_call("get_or_allocate_ownernum", <<n>>)
    \/ leasedb_call("get_all_accounts", <<>>)
    \/ leasedb_call("set_account_attribute", <<1, "name", "value">>)
    \/ leasedb_call("get_account_attribute", <<1, "name">>)

SpecAccounts == Init /\ [][NextAccounts]_vars

\* Bucket writers with a server that registers every committed share in the
\* lease database; share files are also removed out of band.
NextServer ==
    \/ \E w \in Writers, s \in Shares, m \in 1..MaxAlloc :
          /\ s \in WriterShares(w)
          /\ m \in WriterSizes(w)
          /\ BucketWriter_init(w, s, m)
    \/ \E w \in Writers, o \in 0..MaxOffset, d \in DataChoices :
          remote_write(w, o, d)
    \/ \E w \in Writers : remote_close_registering(w)
    \/ \E w \in Writers : remote_abort(w)
    \/ \E w \in Writers : disconnected(w)
    \/ \E s \in Shares : oob_remove(s)

SpecServer == Init /\ [][NextServer]_vars

\* ------------------------------------------------------------------ claims

\* The payload of a share file's content: what follows the header.
Payload(content) == read_share_data(content, 0, Len(content))

\* Writer w is created, not closed: the OPEN state.
IsOpen(w) == bw[w].born = "yes" /\ ~bw[w].closed

\* This step is the call op on object who.
IsCall(op, who) == lastCall'.op = op /\ lastCall'.who = who

\* C1 (commit atomicity): a file at a committed path was put there whole, by
\* the close of a writer or by the administrator, never by a write; when a
\* writer's close put it there, the writer is closed and the file holds, at
\* its payload offset, every byte the writer's accepted writes stored; and
\* what a reader gets is a slice of the payload of the committed file of its
\* share.
C1_CommitAtomicity ==
    /\ \A s \in Shares :
         LET f == files[FinalHome(s)]
         IN f # NoFile =>
              /\ committer[s] \in Writers \cup {"admin"}
              /\ committer[s] \in Writers =>
                   LET w == committer[s]
                   IN /\ bw[w].closed
                      /\ bw[w].share = s
                      /\ \A o \in DOMAIN written[w] :
                           written[w][o] # NotWritten =>
                             /\ Len(f) >= HEADER_SIZE + o + 1
                             /\ f[HEADER_SIZE + o + 1] = written[w][o]
    /\ \A r \in Readers :
         (lastCall.op = "read" /\ lastCall.who = r /\ lastCall.res = "ok") =>
           /\ files[FinalHome(rd[r])] # NoFile
           /\ \E o \in 0..MaxOffset, n \in ReadLengths :
                lastCall.data = read_share_data(files[FinalHome(rd[r])], o, n)

\* C1 witness: a reader has read bytes of a share that writer w1 wrote and
\* committed while the reader held the path.
C1_Witness ==
    /\ lastCall.op = "read" /\ lastCall.res = "ok" /\ lastCall.data = <<1, 2>>
    /\ committer[rd["r1"]] = "w1"

\* C2 as claimed: on a closed writer, every remote_write, remote_close and
\* remote_abort is rejected and changes no file.
C2_AllRejected ==
    [][\A w \in Writers : \A op \in {"write", "close", "abort"} :
         (bw[w].born = "yes" /\ bw[w].closed /\ IsCall(op, w)) =>
           /\ lastCall'.res = "PreconditionError"
           /\ UNCHANGED fsVars]_vars

\* C2 as amended: on a closed writer, remote_write and remote_close are
\* rejected by their precondition, remote_abort returns normally, and none
\* of them changes a file, a directory, the writer or what the server was
\* told.
C2_TerminalStates ==
    [][\A w \in Writers : \A op \in {"write", "close", "abort"} :
         (bw[w].born = "yes" /\ bw[w].closed /\ IsCall(op, w)) =>
           /\ lastCall'.res = IF op = "abort" THEN "ok"
                              ELSE "PreconditionError"
           /\ UNCHANGED <<fsVars, bw, notified>>]_vars

\* C2 witness: remote_abort has returned on a writer that had committed,
\* the committed file still in place.
C2_Witness ==
    \E w \in Writers :
      /\ lastCall = Call("abort", w, "ok")
      /\ Len(notified[w]) = 1 /\ notified[w][1] > HEADER_SIZE
      /\ path_exists(files, FinalHome(bw[w].share))

\* C3 as claimed: after remote_abort on an OPEN writer the staged file of
\* its share does not exist, no committed file exists for the share (one
\* that was at the committed path before the call is not counted), the
\* writer is closed and the server was told it closed with 0 bytes.
C3_AbortCleanliness ==
    [][\A w \in Writers :
         (IsOpen(w) /\ IsCall("abort", w)) =>
           LET s == bw[w].share
           IN /\ ~path_exists(files', IncomingHome(s))
              /\ \/ ~path_exists(files', FinalHome(s))
                 \/ files'[FinalHome(s)] = files[FinalHome(s)]
              /\ bw'[w].closed
              /\ notified'[w] = Append(notified[w], 0)]_vars

\* C4 as claimed: when the canary's connection is lost while the writer is
\* OPEN, the writer is closed as by abort: the staged file is gone, its
\* parent directory is gone if it was left empty, no file appears at the
\* committed path of the share and no shares row appears for it.
C4_DisconnectAborts ==
    [][\A w \in Writers :
         (IsOpen(w) /\ bw[w].hooked /\ IsCall("disconnect", w)) =>
           LET s == bw[w].share
               parent == dirname(IncomingHome(s))
           IN /\ bw'[w].closed
              /\ notified'[w] = Append(notified[w], 0)
              /\ ~path_exists(files', IncomingHome(s))
              /\ dir_is_empty(files', dirs', parent) => parent \notin dirs'
              /\ files'[FinalHome(s)] = files[FinalHome(s)]
              /\ dbShares = {} => dbShares' = {}
              /\ \A r \in dbShares' \ dbShares :
                   <<r.storage_index, r.shnum>> # <<s[1], shnum_of(s[2])>>]_vars

\* C5 (no partial write): a write to an OPEN writer with offset + len(data)
\* > allocated_size fails with DataTooLargeError and leaves every file and
\* directory as it was.
C5_DataTooLarge ==
    [][\A w \in Writers, o \in 0..MaxOffset, d \in DataChoices :
         (/\ IsCall("write", w) /\ IsOpen(w)
          /\ o + Len(d) > bw[w].max_size
          /\ remote_write(w, o, d)) =>
           /\ lastCall' = Call("write", w, "DataTooLargeError")
           /\ UNCHANGED <<fsVars, written>>]_vars

\* C5 witness: a write was refused as too large on a staged file that
\* already held payload bytes.
C5_Witness ==
    \E w \in Writers :
      /\ lastCall = Call("write", w, "DataTooLargeError")
      /\ path_exists(files, IncomingHome(bw[w].share))
      /\ Payload(files[IncomingHome(bw[w].share)]) # <<>>

\* C6 as claimed: once a writer's close has put the file at the committed
\* path, opening a BucketReader there succeeds, and remote_read(offset,
\* length) returns the bytes the writer wrote at those payload offsets.
C6_CloseThenOpen ==
    [][/\ \A r \in Readers, s \in Shares :
           (committer[s] \in Writers /\ lastCall'.op = "open"
              /\ BucketReader_init(r, s)) =>
             lastCall'.res = "ok"
       /\ \A r \in Readers, o \in 0..MaxOffset, n \in ReadLengths :
           (/\ rd[r] # NoShare /\ committer[rd[r]] \in Writers
            /\ lastCall'.op = "read" /\ remote_read(r, o, n)) =>
             LET wr == written[committer[rd[r]]]
             IN /\ lastCall'.res = "ok"
                /\ \A k \in o..(o + n - 1) :
                     (k \in DOMAIN wr /\ wr[k] # NotWritten) =>
                       /\ Len(lastCall'.data) >= k - o + 1
                       /\ lastCall'.data[k - o + 1] = wr[k]]_vars

\* C7 (round trip): a write of b at offset o with o + len(b) <= max_size to
\* the staged share of an OPEN writer is accepted, and read_share_data(o,
\* len(b)) on that share file then returns b.
C7_RoundTrip ==
    [][\A w \in Writers, o \in 0..MaxOffset, d \in DataChoices :
         LET home == IncomingHome(bw[w].share)
         IN (/\ IsCall("write", w) /\ IsOpen(w) /\ path_exists(files, home)
             /\ o + Len(d) <= bw[w].max_size
             /\ remote_write(w, o, d)) =>
              /\ lastCall'.res = "ok"
              /\ read_share_data(files'[home], o, Len(d)) = d]_vars

\* C7 witness: an accepted write at a non-zero offset left a gap before it.
C7_Witness ==
    /\ lastCall = Call("write", "w1", "ok")
    /\ Payload(files[IncomingHome(bw["w1"].share)]) = <<0, 1>>

\* C8 as claimed: opening a share file with a complete header succeeds when
\* the version field is 1 and fails with
\* UnknownImmutableContainerVersionError otherwise.
C8_OpenChecksVersion ==
    [][\A r \in Readers, s \in Shares :
         LET f == files[FinalHome(s)]
         IN (/\ f # NoFile /\ Len(f) >= HEADER_SIZE
             /\ lastCall'.op = "open" /\ BucketReader_init(r, s)) =>
              lastCall'.res = IF unpack_L(SubSeq(f, 1, 4)) = 1 THEN "ok"
                              ELSE "UnknownImmutableContainerVersionError"]_vars

\* C9 as claimed, for the files bucket writers commit: while a file stays at
\* a committed path its payload does not change.
C9_CommittedImmutable ==
    [][\A s \in Shares :
         (/\ committer[s] \in Writers
          /\ path_exists(files, FinalHome(s))
          /\ path_exists(files', FinalHome(s))) =>
            Payload(files'[FinalHome(s)]) = Payload(files[FinalHome(s)])]_vars

\* C10 as claimed: a step that inserts a shares row also inserts exactly one
\* lease row for its id, of account 1, expiring 5,184,000 seconds later.
C10_StarterLease ==
    [][\A r \in dbShares' \ dbShares :
         /\ Cardinality({l \in dbLeases' : l.share_id = r.id}) = 1
         /\ \A l \in dbLeases' :
              l.share_id = r.id =>
                /\ l.account_id = 1
                /\ l.expiration_time = now + 5184000]_vars

\* C11 as claimed: when a writer's close commits its share, the close
\* completes and the lease database then holds one shares row for the
\* share's (storage_index, shnum), with the size of the committed file, and
\* exactly one lease for that row, of account 1.
C11_CommitRegisters ==
    [][\A w \in Writers :
         LET s == bw[w].share
         IN (/\ IsCall("close", w) /\ IsOpen(w)
             /\ path_exists(files, IncomingHome(s))
             /\ remote_close_registering(w)) =>
              /\ lastCall'.res = "ok"
              /\ \E r \in dbShares' :
                   /\ r.storage_index = s[1] /\ r.shnum = shnum_of(s[2])
                   /\ r.size \in {Len(files'[FinalHome(s)]),
                                  size_of_disk_file(files'[FinalHome(s)])}
                   /\ Cardinality({l \in dbLeases' : l.share_id = r.id}) = 1
                   /\ \A l \in dbLeases' :
                        l.share_id = r.id =>
                          l.account_id = STARTER_LEASE_ACCOUNTID]_vars

\* The rows of the shares table for share s.
RowsOf(rows, s) ==
    {r \in rows : r.storage_index = s[1] /\ r.shnum = shnum_of(s[2])}

\* C12 as claimed: after the crawler's slice of a prefix, every committed
\* share file of the prefix has exactly one shares row, and the row's size
\* is size_of_disk_file of the file.
C12_CrawlerInserts ==
    [][\A p \in Prefixes :
         (IsCall("crawl", p) /\ process_prefixdir(p)) =>
            \A s \in Shares :
               (Prefix(s[1]) = p /\ path_exists(files', FinalHome(s))) =>
                  /\ Cardinality(RowsOf(dbShares', s)) = 1
                  /\ \A r \in RowsOf(dbShares', s) :
                       r.size = size_of_disk_file(files'[FinalHome(s)])]_vars

\* C13 as claimed: after the crawler's slice of a prefix, every shares row
\* of the prefix has its share file on disk, and get_shares_for_prefix
\* returns no share whose file is gone.
C13_CrawlerDeletes ==
    [][\A p \in Prefixes :
         (IsCall("crawl", p) /\ process_prefixdir(p)) =>
            \A s \in Shares :
               (Prefix(s[1]) = p /\ ~path_exists(files', FinalHome(s))) =>
                  /\ RowsOf(dbShares', s) = {}
                  /\ <<s[1], shnum_of(s[2])>> \notin
                        {<<r.storage_index, r.shnum>> :
                           r \in {q \in dbShares' : q.prefix = p}}]_vars

\* C14 as claimed: a crawler slice that deletes a shares row deletes the
\* leases of that row with it, and after any slice every lease row refers
\* to a row of the shares table.
C14_LeaseCascade ==
    [][\A p \in Prefixes :
         (IsCall("crawl", p) /\ process_prefixdir(p)) =>
            /\ \A r \in dbShares \ dbShares' :
                  \A l \in dbLeases' : l.share_id # r.id
            /\ \A l \in dbLeases' :
                  \E r \in dbShares' : r.id = l.share_id]_vars

\* C15: the crawler's slice of a prefix leaves every file and every
\* directory as it was, also when disk and index disagree.
C15_FilesystemAuthoritative ==
    [][\A p \in Prefixes :
         (IsCall("crawl", p) /\ process_prefixdir(p)) =>
            files' = files /\ dirs' = dirs]_vars

\* C15 witness: a slice has just run that found a share file without a row
\* (its insert raised), while another row has no share file.
C15_Witness ==
    /\ lastCall.op = "crawl"
    /\ lastCall.res = "OperationalError"
    /\ \E s \in Shares :
         path_exists(files, FinalHome(s)) /\ RowsOf(dbShares, s) # {}
    /\ \E s \in Shares :
         ~path_exists(files, FinalHome(s)) /\ RowsOf(dbShares, s) # {}

\* A character an account name may consist of: A-Z, a-z, 0-9, "+", "-", "_".
allowed_char(c) ==
    \/ ord(c) >= 97 /\ ord(c) <= 122
    \/ ord(c) >= 65 /\ ord(c) <= 90
    \/ ord(c) >= 48 /\ ord(c) <= 57
    \/ c \in {"+", "-", "_"}

\* C16 as claimed: get_account of a name with a character outside A-Z, a-z,
\* 0-9, "+", "-", "_" fails with BadAccountName and changes neither the
\* accounts directory (next_ownernum included) nor the live-account table.
C16_BadAccountName ==
    [][\A n \in PubkeyStrings :
         (/\ lastCall'.op = "get_account"
          /\ \E i \in 1..Len(n) : ~allowed_char(n[i])
          /\ get_account(n)) =>
            /\ lastCall'.res = "BadAccountName"
            /\ UNCHANGED <<accountant, accounts_fs, handles>>]_vars

C18_OwnerNumbers ==
    [][\A n \in PubkeyStrings :
         (accounts_fs'.entries[n].dir /\ ~accounts_fs.entries[n].dir) =>
            LET id == accounts_fs'.entries[n].ownernum
            IN /\ (n = Anonymous) <=> (id = 0)
               /\ n # Anonymous => id > 0
               /\ \A m \in PubkeyStrings :
                    accounts_fs.entries[m].dir =>
                       id > accounts_fs.entries[m].ownernum]_vars

\* C19 as claimed, as far as the calls get: get_or_allocate_ownernum
\* returns an id for every name, and get_all_accounts returns the pairs
\* allocated so far.
C19_GetOrAllocate ==
    [][lastCall'.op \in {"get_or_allocate_ownernum", "get_all_accounts"} =>
         lastCall'.res = "ok"]_vars

\* C20 as claimed, as far as the calls get: set_account_attribute stores
\* the value and get_account_attribute returns a value or None.
C20_AccountAttributes ==
    [][lastCall'.op \in {"set_account_attribute", "get_account_attribute"} =>
         lastCall'.res = "ok"]_vars

\* C21: opening a path with no database creates the version-1 schema with
\* empty tables; opening a version-1 file succeeds and shows the tables as
\* the file holds them, which stay as they are; opening a file whose
\* version row is not 1 fails and leaves the file alone.
C21_LeaseDBOpen ==
    [][IsCall("LeaseDB", "-") =>
         /\ dbfile.version = NoNumber =>
               /\ lastCall'.res = "ok"
               /\ dbfile' = [version |-> 1, open |-> TRUE]
               /\ dbDurable' = EmptyTables
               /\ dbShares' = {} /\ dbLeases' = {}
         /\ dbfile.version = 1 =>
               /\ lastCall'.res = "ok"
               /\ dbfile' = [version |-> 1, open |-> TRUE]
               /\ dbDurable' = dbDurable
               /\ dbShares' = dbDurable.shares
               /\ dbLeases' = dbDurable.leases
         /\ dbfile.version \notin {NoNumber, 1} =>
               /\ lastCall'.res /= "ok"
               /\ ~dbfile'.open
               /\ dbfile'.version = dbfile.version
               /\ dbDurable' = dbDurable]_vars

\* A version-1 file that holds a share row and its lease has just been
\* opened again, and the connection shows both.
C21_Witness ==
    /\ lastCall.op = "LeaseDB" /\ lastCall.res = "ok" /\ lastCall.data = <<1>>
    /\ dbfile.open
    /\ dbShares /= {} /\ dbLeases /= {}
    /\ dbShares = dbDurable.shares


\* C22: with lease expiration enabled and a cutoff set, a crawler slice that
\* completes leaves no lease that expired before the cutoff, no shares row
\* of its prefix without a lease, and no share file of its prefix without a
\* leased row.
C22_LeaseExpiration ==
    [][\A p \in Prefixes :
         (/\ IsCall("crawl", p) /\ lastCall'.res = "ok"
          /\ crawler.do_expire /\ crawler.expire_time /= NoNumber) =>
            /\ \A l \in dbLeases' :
                  l.expiration_time >= crawler.expire_time
            /\ \A r \in dbShares' :
                  r.prefix = p => \E l \in dbLeases' : l.share_id = r.id
            /\ \A q \in FilePaths :
                  (Len(q) = 3 /\ q[1] = p /\ path_exists(files', q)) =>
                     \E r \in dbShares' :
                        /\ r.storage_index = q[2] /\ r.shnum = shnum_of(q[3])
                        /\ \E l \in dbLeases' : l.share_id = r.id]_vars


\* C23 as claimed: a crawler slice raises no error, also when a share file
\* vanishes before its stat or an insert fails, and after the slice every
\* share file left on disk under the prefix has a shares row.
C23_ErrorContainment ==
    [][\A p \in Prefixes :
         IsCall("crawl", p) =>
            /\ lastCall'.res = "ok"
            /\ \A s \in Shares :
                  (Prefix(s[1]) = p /\ path_exists(files', FinalHome(s))) =>
                     RowsOf(dbShares', s) /= {}]_vars


\* C24 as claimed: what a crawler slice makes durable is that slice's own
\* changes and all of them: a slice that changes the committed tables
\* started with nothing pending from an earlier slice and leaves nothing
\* pending, and a slice that fails changes nothing in the committed tables.
C24_SliceAtomicity ==
    [][\A p \in Prefixes :
         (IsCall("crawl", p) /\ process_prefixdir(p)) =>
            /\ lastCall'.res /= "ok" => dbDurable' = dbDurable
            /\ dbDurable' /= dbDurable =>
                  /\ dbShares = dbDurable.shares
                  /\ dbLeases = dbDurable.leases
                  /\ dbDurable' = [shares |-> dbShares',
                                   leases |-> dbLeases']]_vars


\* C25 as claimed: a share a bucket writer committed before the crawler
\* takes its prefix has its shares row once that slice is over; no share
\* committed before a cycle is still without a row after the cycle.
C25_CommittedPickedUp ==
    [][\A p \in Prefixes :
         (IsCall("crawl", p) /\ process_prefixdir(p)) =>
            \A s \in Shares :
               (/\ Prefix(s[1]) = p
                /\ committer[s] \in Writers
                /\ path_exists(files, FinalHome(s))) =>
                  RowsOf(dbShares', s) /= {}]_vars


\* C26 as claimed: a close, an abort or a disconnect of one writer removes
\* only directories that hold nothing, and leaves the staged file of every
\* other OPEN writer, and the directories above it, as they were.
C26_BestEffortCleanup ==
    [][\A w \in Writers :
         (lastCall'.who = w
          /\ lastCall'.op \in {"close", "abort", "disconnect"}) =>
            /\ \A d \in dirs \ dirs' : dir_is_empty(files', dirs', d)
            /\ \A v \in Writers \ {w} :
                  LET home == IncomingHome(bw[v].share)
                  IN (IsOpen(v) /\ path_exists(files, home)) =>
                        /\ files'[home] = files[home]
                        /\ \A k \in 1..(Len(home) - 1) :
                              SubSeq(home, 1, k) \in dirs']_vars


\* C27: a remote_get_account whose signature does not verify creates no
\* account directory, allocates no owner number, writes no nickname, makes
\* no Account and asks for no reference to the peer: the accounts directory,
\* the accountant and the Account objects are as before.
C27_VerifyBeforeResolve ==
    [][(lastCall'.op = "remote_get_account" /\ lastCall'.data[2] = FALSE) =>
         /\ lastCall'.res \in {"BadSignatureError", "ValueError"}
         /\ accounts_fs' = accounts_fs
         /\ accountant' = accountant
         /\ handles' = handles]_vars

\* A request for the key pub-v0-a with a bad signature has just been
\* refused, on an accountant that would have made the account: accounts are
\* created on demand and the key has no account directory.
C27_Witness ==
    /\ lastCall.op = "remote_get_account"
    /\ lastCall.res = "BadSignatureError"
    /\ lastCall.data[1] = PubA
    /\ accountant.create_if_missing = "yes"
    /\ accounts_fs.next_ownernum /= NoNumber
    /\ ~accounts_fs.entries[PubA].dir


\* C28: at every instant the attribute file is absent or holds one of the
\* written strings whole, with its newline; while a write is under way, and
\* after a crash in it, the file is what it was when the write began or the
\* whole new value.
C28_AtomicAttribute ==
    /\ \/ attrfile.fn = Absent
       \/ \E s \in AttrStrings : attrfile.fn = s \o <<"LF">>
    /\ attrfile.fn \in {attrfile.prev, attrfile.data}
    /\ attr_read(attrfile.fn) \in AttrStrings \cup {<<>>}

\* A write of a new value over an older one has crashed with only part of
\* its bytes in the .tmp file.
C28_Witness ==
    /\ lastCall.op = "_write" /\ lastCall.who = "crash"
    /\ attrfile.fn # Absent
    /\ attrfile.fn # attrfile.data
    /\ attrfile.tmp # Absent
    /\ Len(attrfile.tmp) > 0 /\ Len(attrfile.tmp) < Len(attrfile.data)


\* C29 as claimed: the creation of a writer for a share whose staged file
\* exists fails and leaves every file as it was, and nothing that writer
\* does afterwards changes a file or a directory.
C29_ExclusiveCreation ==
    [][\A w \in Writers :
         /\ (IsCall("init", w) /\ bw[w].born = "no"
             /\ path_exists(files, IncomingHome(bw'[w].share))) =>
               /\ lastCall'.res # "ok"
               /\ files' = files
         /\ (bw[w].born = "failed" /\ lastCall'.who = w) =>
               /\ files' = files
               /\ dirs' = dirs]_vars


\* The payload that holds, at each offset, the last byte written there:
\* as long as the highest offset written, zero where nothing was written.
LastWritten(wr) ==
    LET top == {o \in DOMAIN wr : wr[o] # NotWritten}
        n == IF top = {} THEN 0
             ELSE 1 + (CHOOSE o \in top : \A q \in top : q <= o)
    IN [i \in 1..n |-> IF wr[i - 1] = NotWritten THEN 0 ELSE wr[i - 1]]

\* C30: the staged file of an OPEN writer is its header followed by the
\* last byte written at each offset, whatever the order the writes came
\* in; and on the file a creation or a write has just left, two further
\* writes to byte ranges that do not overlap give the same file in either
\* order.
C30_OrderIndependence ==
    \A w \in Writers :
       LET home == IncomingHome(bw[w].share)
       IN (IsOpen(w) /\ path_exists(files, home)) =>
            /\ files[home] =
                  share_header(bw[w].max_size) \o LastWritten(written[w])
            /\ (lastCall.who = w /\ lastCall.op \in {"init", "write"}) =>
                  \A o1, o2 \in 0..MaxOffset, d1, d2 \in DataChoices :
                     (o1 + Len(d1) <= o2) =>
                        write_share_data(
                            write_share_data(files[home], o1, d1), o2, d2)
                         = write_share_data(
                              write_share_data(files[home], o2, d2), o1, d1)

\* C30 witness: writer w1 has written offset 1 and then offset 0, the
\* second write being the one that has just been accepted.
C30_Witness ==
    /\ lastCall = Call("write", "w1", "ok")
    /\ IsOpen("w1")
    /\ written["w1"][0] # NotWritten
    /\ written["w1"][1] # NotWritten
    /\ Len(files[IncomingHome(bw["w1"].share)]) = HEADER_SIZE + 2


\* C31 as claimed: commit() makes the pending changes durable, and it calls
\* no database commit when nothing has changed since the previous commit,
\* as right after a crawler slice that completed (and so ended with its own
\* commit).
C31_CommitNoOpWhenClean ==
    [][IsCall("commit", "leasedb") =>
         /\ dbDurable' = [shares |-> dbShares, leases |-> dbLeases]
         /\ (lastCall.op = "crawl" /\ lastCall.res = "ok") =>
               lastCall'.data = <<>>]_vars


\* ------------------------------------------------------- storage client

\* The announcements the introducer delivers: the FURL (of which only the
\* tub id is told apart), the nickname, and the service name.
Announcements ==
    [FURL : ServerIds, nickname : {"n1", "n2"},
     service_name : {"storage", "stub_client"}]

\* The key_s an announcement comes with: None, a "v0-" key, another string.
KeyStrings == {"None", "v0-key", "key"}

\* NativeStorageServer.__init__: not connected, no Reconnector.  conn is
\* the transport connection its Reconnector has, pc the callback the
\* connection's Deferred chain waits for, account_pc whether remote_account
\* waits for the version of the Account reference, registered whether
\* tub.registerReference(self) has been called, hooked whether _lost is
\* subscribed to the connection.
NativeStorageServer(ann_d, client_key) ==
    [announcement |-> ann_d, client_key |-> client_key,
     rref |-> "None", remote_host |-> "None", reconnector |-> "None",
     accounting_enabled |-> "unset", conn |-> "down", pc |-> "idle",
     account_pc |-> FALSE, registered |-> FALSE, hooked |-> FALSE]

\* NativeStorageServer.get_serverid: the tub id of the announced FURL.
get_serverid(s) == s.announcement.FURL

\* NativeStorageServer.get_rref.
get_rref(s) == s.rref

Objs == 1..Len(client.objs)

\* StorageFarmBroker.get_connected_servers: the servers of self.servers
\* whose get_rref() is true.
connected_server(c, o) ==
    /\ c.servers[get_serverid(c.objs[o])] = o
    /\ get_rref(c.objs[o]) # "None"

get_connected_servers == {o \in Objs : connected_server(client, o)}

\* StorageFarmBroker.__init__(tub, permute_peers, client_key).
StorageFarmBroker_init(client_key) ==
    /\ ~client.constructed
    /\ client' = [client EXCEPT !.constructed = TRUE,
                                !.client_key = client_key]
    /\ lastCall' = Call("init", "broker", "ok")
    /\ UNCHANGED <<fsVars, bwVars, rd, dbVars, now, acctVars,
                   dbfile, crawler, attrfile>>

\* Mutant: the replaced server object keeps its Reconnector going.
stop_connecting_never(objs, o) == objs

\* NativeStorageServer.stop_connecting on object o of a sequence.
stop_connecting(objs, o) ==
    [objs EXCEPT ![o].reconnector = "stopped"]

\* NativeStorageServer.start_connecting on the last object of a sequence:
\* tub.connectTo gives it a Reconnector.
start_connecting(objs) ==
    [objs EXCEPT ![Len(objs)].reconnector = "active"]

\* StorageFarmBroker._got_announcement(key_s, ann_d).
got_announcement(key_s, ann_d) ==
    LET s == NativeStorageServer(ann_d, client.client_key)
        serverid == get_serverid(s)
        old == client.servers[serverid]
        objs == IF old # 0 THEN stop_connecting(client.objs, old)
                ELSE client.objs
    IN /\ client.constructed
       /\ IF key_s = "key" \/ ann_d.service_name # "storage"
          THEN /\ lastCall' = Call("got_announcement", "broker",
                                   "AssertionError")
               /\ UNCHANGED client
          ELSE IF old # 0 /\ client.objs[old].announcement = ann_d
          THEN /\ lastCall' = Call("got_announcement", "broker",
                                   "duplicate")
               /\ UNCHANGED client
          ELSE /\ Len(client.objs) < MaxServers
               /\ client' = [client EXCEPT
                     !.servers[serverid] = Len(client.objs) + 1,
                     !.objs = start_connecting(Append(objs, s))]
               /\ lastCall' = Call("got_announcement", "broker", "ok")
       /\ UNCHANGED <<fsVars, bwVars, rd, dbVars, now, acctVars,
                      dbfile, crawler, attrfile>>

\* NativeStorageServer._got_connection, which an active Reconnector calls
\* with the reference of a new connection: the version is asked for.
got_connection(o) ==
    /\ client.objs[o].reconnector = "active"
    /\ client.objs[o].conn = "down"
    /\ client' = [client EXCEPT !.objs[o].conn = "up",
                                !.objs[o].pc = "get_version"]
    /\ lastCall' = Call("got_connection", "server", "ok")
    /\ UNCHANGED <<fsVars, bwVars, rd, dbVars, now, acctVars,
                   dbfile, crawler, attrfile>>

\* NativeStorageServer._got_versioned_service on the objects objs:
\* accounting says whether the server's version has "accounting-v1".
\* Without it, or without a client key, the server is used anonymously;
\* otherwise the client registers itself and calls get_account.
got_versioned_service_result(objs, o, accounting) ==
    IF ~accounting \/ ~objs[o].client_key
    THEN [objs EXCEPT ![o].remote_host = "peer",
                      ![o].rref = "storage",
                      ![o].accounting_enabled = "no",
                      ![o].hooked = TRUE,
                      ![o].pc = "idle"]
    ELSE [objs EXCEPT ![o].registered = TRUE,
                      ![o].pc = "get_account"]

got_versioned_service(o, accounting) ==
    /\ client.objs[o].pc = "get_version"
    /\ client' = [client EXCEPT
          !.objs = got_versioned_service_result(client.objs, o, accounting)]
    /\ lastCall' = Call("got_versioned_service", "server", "ok")
    /\ UNCHANGED <<fsVars, bwVars, rd, dbVars, now, acctVars,
                   dbfile, crawler, attrfile>>

\* The Deferred of callRemote("get_account") fires: its result is the
\* result of the chain, and a failure is logged by the errback of
\* _got_connection.  Nothing of the server object changes.
get_account_returned(objs, o) ==
    [objs EXCEPT ![o].pc = "idle"]

\* The server is a peer of another kind: its reply to get_account.
get_account_reply(o, res) ==
    /\ client.objs[o].pc = "get_account"
    /\ client' = [client EXCEPT !.objs = get_account_returned(client.objs, o)]
    /\ lastCall' = Call("get_account", "server", res)
    /\ UNCHANGED <<fsVars, bwVars, rd, dbVars, now, acctVars,
                   dbfile, crawler, attrfile>>

\* The server is the AccountantWindow: get_account reaches
\* remote_get_account with the message _got_versioned_service builds,
\* {"please-give-Account-to-rxFURL": me}, signed by the client key, and
\* what remote_get_account raises or returns comes back to the client.
window_get_account(o) ==
    /\ client.objs[o].pc = "get_account"
    /\ window_resolve(PubA, NoString, <<PubA, TRUE, NoString>>)
    /\ client' = [client EXCEPT !.objs = get_account_returned(client.objs, o)]
    /\ UNCHANGED <<fsVars, bwVars, rd, dbVars, now,
                   dbfile, crawler, attrfile>>

\* NativeStorageServer.remote_account(account): a peer that holds the
\* registered reference calls it; the version of account is asked for.
remote_account(o) ==
    /\ client.objs[o].registered
    /\ client.objs[o].conn = "up"
    /\ ~client.objs[o].account_pc
    /\ client' = [client EXCEPT !.objs[o].account_pc = TRUE]
    /\ lastCall' = Call("remote_account", "server", "ok")
    /\ UNCHANGED <<fsVars, bwVars, rd, dbVars, now, acctVars,
                   dbfile, crawler, attrfile>>

\* NativeStorageServer._got_versioned_remote_account.
got_versioned_remote_account_result(objs, o) ==
    [objs EXCEPT ![o].remote_host = "peer",
                 ![o].rref = "account",
                 ![o].accounting_enabled = "yes",
                 ![o].hooked = TRUE,
                 ![o].account_pc = FALSE]

got_versioned_remote_account(o) ==
    /\ client.objs[o].account_pc
    /\ client' = [client EXCEPT
          !.objs = got_versioned_remote_account_result(client.objs, o)]
    /\ lastCall' = Call("got_versioned_remote_account", "server", "ok")
    /\ UNCHANGED <<fsVars, bwVars, rd, dbVars, now, acctVars,
                   dbfile, crawler, attrfile>>

\* Mutant: _lost forgets the reference and keeps the host.
lost_result_keeping_host(objs, o) ==
    [objs EXCEPT ![o].rref = "None"]

\* NativeStorageServer._lost: the reference and the host are forgotten.
lost_result(objs, o) ==
    [objs EXCEPT ![o].rref = "None", ![o].remote_host = "None"]

\* The connection of a server object is lost: the calls in flight fail
\* (their errbacks log), and _lost runs if it was subscribed.
lost(o) ==
    LET dead == [client.objs EXCEPT ![o].conn = "down",
                                    ![o].pc = "idle",
                                    ![o].account_pc = FALSE,
                                    ![o].hooked = FALSE]
    IN /\ client.objs[o].conn = "up"
       /\ client' = [client EXCEPT
             !.objs = IF client.objs[o].hooked THEN lost_result(dead, o)
                      ELSE dead]
       /\ lastCall' = Call("lost", "server",
                           IF client.objs[o].hooked THEN "ok"
                           ELSE "unsubscribed")
       /\ UNCHANGED <<fsVars, bwVars, rd, dbVars, now, acctVars,
                      dbfile, crawler, attrfile>>

\* The announcements of the storage service of one server.
UpgradeAnnouncements ==
    {a \in Announcements : a.FURL = "s1" /\ a.service_name = "storage"}

\* The broker with servers that are used anonymously.
NextBroker ==
    \/ \E k \in BOOLEAN : StorageFarmBroker_init(k)
    \/ \E key_s \in KeyStrings, ann_d \in Announcements :
          got_announcement(key_s, ann_d)
    \/ \E o \in Objs : got_connection(o)
    \/ \E o \in Objs : got_versioned_service(o, FALSE)
    \/ \E o \in Objs : lost(o)

SpecBroker == Init /\ [][NextBroker]_vars

\* The client with one server, of any kind, and its announcements.
NextClient ==
    \/ \E k \in BOOLEAN : StorageFarmBroker_init(k)
    \/ \E ann_d \in UpgradeAnnouncements : got_announcement("v0-key", ann_d)
    \/ \E o \in Objs : got_connection(o)
    \/ \E o \in Objs, accounting \in BOOLEAN :
          got_versioned_service(o, accounting)
    \/ \E o \in Objs : get_account_reply(o, "ok")
    \/ \E o \in Objs : remote_account(o)
    \/ \E o \in Objs : got_versioned_remote_account(o)
    \/ \E o \in Objs : lost(o)

SpecClient == Init /\ [][NextClient]_vars

\* The client with a server whose get_account is the AccountantWindow's
\* remote_get_account and whose version has "accounting-v1".  The
\* continuation of a remote_get_account that returns (tub.getReference,
\* _got_rx, callRemote("account")) is no step here: window_get_account
\* never returns for this client's message.
NextUpgrade ==
    \/ accountant_setup
    \/ \E k \in BOOLEAN : StorageFarmBroker_init(k)
    \/ \E ann_d \in UpgradeAnnouncements : got_announcement("v0-key", ann_d)
    \/ \E o \in Objs : lost(o)
    \/ \E o \in Objs : got_connection(o)
    \/ \E o \in Objs : got_versioned_service(o, TRUE)
    \/ \E o \in Objs : window_get_account(o)

\* The transport delivers every message: each step of the handshake of
\* each server object is taken when it can be.  Nothing makes a
\* connection end.
UpgradeFairness ==
    \A o \in 1..MaxServers :
       /\ WF_vars(o \in Objs /\ got_connection(o))
       /\ WF_vars(o \in Objs /\ got_versioned_service(o, TRUE))
       /\ WF_vars(o \in Objs /\ window_get_account(o))

SpecUpgradeFair == Init /\ [][NextUpgrade]_vars /\ UpgradeFairness


\* C32 as claimed: with a client key, a server that has "accounting-v1"
\* and a transport that delivers every message, a connection that is
\* upgrading (get_account has been called) leads to the client holding a
\* reference (rref is not None), unless the connection ends first.
C32_UpgradeTerminates ==
    \A o \in 1..MaxServers :
       (o \in Objs /\ client.objs[o].pc = "get_account")
          ~> (o \in Objs /\ (\/ client.objs[o].rref # "None"
                             \/ client.objs[o].conn = "down"))


\* C33: get_connection_status of an account that has just been created
\* reports not connected, and None for connected_since, last_connected_from
\* and last_seen; after connection_from it reports connected, with
\* connected_since and last_connected_from set; after a disconnect it
\* reports not connected, connected_since None, last_connected_from what it
\* was and last_seen set.  In every state an Account is connected exactly
\* when its connection and its connected_since are not None.
C33_Inv ==
    \A h \in 1..Len(handles) :
       /\ handles[h].connected <=> (/\ handles[h].connection # 0
                                    /\ handles[h].connected_since # NoNumber)
       /\ handles[h].connected <=> (\/ handles[h].connection # 0
                                    \/ handles[h].connected_since # NoNumber)

C33_Steps ==
    /\ (lastCall'.op = "remote_get_account" /\ Len(handles') > Len(handles)
        /\ ~accounts_fs.entries[handles'[Len(handles')].name].dir) =>
          LET st == connection_status(handles'[Len(handles')], accounts_fs')
          IN /\ st.res = "ok"
             /\ ~st.connected
             /\ st.connected_since = NoNumber
             /\ st.last_connected_from = NoString
             /\ st.last_seen = NoNumber
    /\ IsCall("got_rx", "window") =>
          \A h \in 1..Len(handles) :
             (handles[h].pending_rx /\ ~handles'[h].pending_rx) =>
                LET st == connection_status(handles'[h], accounts_fs')
                IN /\ st.res = "ok"
                   /\ st.connected
                   /\ st.connected_since # NoNumber
                   /\ st.last_connected_from # NoString
    /\ IsCall("disconnected", "account") =>
          \A h \in 1..Len(handles) :
             (handles'[h].live # handles[h].live) =>
                LET st == connection_status(handles'[h], accounts_fs')
                IN /\ st.res = "ok"
                   /\ ~st.connected
                   /\ st.connected_since = NoNumber
                   /\ st.last_connected_from # NoString
                   /\ st.last_connected_from
                        = get_connection_status(h).last_connected_from
                   /\ st.last_seen # NoNumber

C33_ConnectionLifecycle == []C33_Inv /\ [][C33_Steps]_vars

\* C33 witness: an account that was connected has just been disconnected.
C33_Witness ==
    /\ lastCall = Call("disconnected", "account", "ok")
    /\ \E h \in 1..Len(handles) :
          /\ ~handles[h].connected
          /\ handles[h].live = {}
          /\ get_connection_status(h).last_connected_from = PeerAddress
          /\ get_connection_status(h).last_seen # NoNumber


\* C34: _got_announcement ignores an announcement equal to the one held
\* for its server id (no server object is made, nothing changes); an
\* announcement that differs replaces the held object, whose Reconnector is
\* stopped, by a new one that connects; in every state the broker holds one
\* object for each server id announced, that object's Reconnector is
\* active, and no other object's is.
C34_Inv ==
    /\ \A i \in ServerIds :
          client.servers[i] # 0 =>
             /\ client.servers[i] \in Objs
             /\ get_serverid(client.objs[client.servers[i]]) = i
    /\ \A o \in Objs :
          /\ client.servers[get_serverid(client.objs[o])] # 0
          /\ client.objs[o].reconnector = "active"
                <=> client.servers[get_serverid(client.objs[o])] = o
          /\ client.objs[o].reconnector \in {"active", "stopped"}

C34_Steps ==
    IsCall("got_announcement", "broker") =>
       /\ lastCall'.res = "duplicate" => client' = client
       /\ lastCall'.res = "AssertionError" => client' = client
       /\ lastCall'.res = "ok" =>
             LET new == Len(client'.objs)
                 i == get_serverid(client'.objs[new])
                 old == client.servers[i]
             IN /\ new = Len(client.objs) + 1
                /\ client'.servers = [client.servers EXCEPT ![i] = new]
                /\ client'.objs[new].reconnector = "active"
                /\ client'.objs[new].conn = "down"
                /\ old # 0 =>
                      /\ client.objs[old].announcement
                            # client'.objs[new].announcement
                      /\ client'.objs[old].reconnector = "stopped"
                /\ \A o \in Objs :
                      o # old => client'.objs[o] = client.objs[o]

C34_Announcements == []C34_Inv /\ [][C34_Steps]_vars

\* C34 witness: a second announcement for server s1, with another nickname,
\* has just replaced the object of the first, which was connected.
C34_Witness ==
    /\ lastCall = Call("got_announcement", "broker", "ok")
    /\ Len(client.objs) = 2
    /\ client.servers["s1"] = 2
    /\ get_serverid(client.objs[1]) = "s1"
    /\ client.objs[1].reconnector = "stopped"
    /\ client.objs[1].rref # "None"
    /\ client.objs[2].reconnector = "active"


\* C35: the server's bucket_writer_closed has been called once for a writer
\* that is closed (committed or aborted) and never for one that is not; the
\* close that commits passes the length of the committed file, the abort
\* (by remote_abort or by the disconnect hook) passes 0, and no other step
\* calls it.
C35_Inv ==
    \A w \in Writers : Len(notified[w]) = IF bw[w].closed THEN 1 ELSE 0

C35_Steps ==
    \A w \in Writers :
       /\ (IsCall("close", w) /\ lastCall'.res = "ok") =>
             /\ ~bw[w].closed /\ bw'[w].closed
             /\ notified'[w] = <<Len(files'[FinalHome(bw[w].share)])>>
             /\ Len(files'[FinalHome(bw[w].share)]) >= HEADER_SIZE
       /\ (lastCall'.who = w /\ lastCall'.op \in {"abort", "disconnect"}
           /\ ~bw[w].closed /\ bw'[w].closed) =>
             notified'[w] = <<0>>
       /\ notified'[w] # notified[w] =>
             /\ lastCall'.who = w
             /\ lastCall'.op \in {"close", "abort", "disconnect"}
       /\ bw[w].closed /\ bw'[w].closed => notified'[w] = notified[w]

C35_ExactlyOnce == []C35_Inv /\ [][C35_Steps]_vars

\* C35 witness: w1 has committed a share and w2 has aborted; remote_abort
\* has then been called again on w2.
C35_Witness ==
    /\ lastCall = Call("abort", "w2", "ok")
    /\ bw["w1"].closed /\ committer[bw["w1"].share] = "w1"
    /\ notified["w1"] = <<HEADER_SIZE + 1>>
    /\ bw["w2"].closed
    /\ notified["w2"] = <<0>>


\* C36: once remote_close has committed a writer's share, the disconnect
\* hook is no longer subscribed, and a remote_abort or a disconnect on that
\* writer changes no file and no directory, leaves the committed file as it
\* is and does not call bucket_writer_closed again.
Committed(w) ==
    bw[w].born = "yes" /\ bw[w].closed /\ notified[w] # <<0>>

C36_Inv == \A w \in Writers : Committed(w) => ~bw[w].hooked

C36_Steps ==
    \A w \in Writers :
       (Committed(w) /\ lastCall'.who = w
        /\ lastCall'.op \in {"abort", "disconnect"}) =>
          /\ lastCall'.res = "ok"
          /\ files' = files
          /\ dirs' = dirs
          /\ notified' = notified
          /\ bw' = bw

C36_LateCancellation == []C36_Inv /\ [][C36_Steps]_vars

\* C36 witness: remote_abort has just been called on w1, which had
\* committed its share; the committed file is there.
C36_Witness ==
    /\ lastCall = Call("abort", "w1", "ok")
    /\ Committed("w1")
    /\ committer[bw["w1"].share] = "w1"
    /\ path_exists(files, FinalHome(bw["w1"].share))
    /\ written["w1"][0] # NotWritten


\* C37 as claimed: while a connection registered through connection_from
\* is alive, the Account is connected and its connection is one of the
\* live ones; the loss of an earlier connection does not mark an account
\* with a later connection as disconnected.
C37_OverlappingConnections ==
    \A h \in 1..Len(handles) :
       handles[h].live # {} =>
          /\ handles[h].connected
          /\ handles[h].connection \in handles[h].live


\* C38: in every state, also after a crash between two statements of
\* get_ownernum_by_pubkey, accounts/next_ownernum is greater than the
\* ownernum of every account directory, and no two account directories
\* hold the same ownernum.
C38_OwnernumsNeverReused ==
    /\ \A n \in PubkeyStrings :
          accounts_fs.entries[n].ownernum # NoNumber =>
             /\ accounts_fs.next_ownernum # NoNumber
             /\ accounts_fs.next_ownernum > accounts_fs.entries[n].ownernum
    /\ \A n, m \in PubkeyStrings :
          (/\ n # m
           /\ accounts_fs.entries[n].ownernum # NoNumber
           /\ accounts_fs.entries[m].ownernum # NoNumber) =>
             accounts_fs.entries[n].ownernum # accounts_fs.entries[m].ownernum

\* C38 witness: the creation of pub-v0-a was interrupted by a crash after
\* next_ownernum had been bumped, and anonymous and a:b have been created
\* since.
C38_Witness ==
    /\ accountant.call.pc = "idle"
    /\ ~accounts_fs.entries[PubA].dir
    /\ accounts_fs.entries[Anonymous].ownernum = 2
    /\ accounts_fs.entries[<<"a", ":", "b">>].ownernum = 3
    /\ accounts_fs.next_ownernum = 4

\* C39 as claimed: whatever statement an earlier get_ownernum_by_pubkey for
\* a valid name was interrupted after, a later call for that name returns
\* an owner number, and the created attribute of the account can be read.
C39_CreationRecovers ==
    [][(/\ IsCall("get_ownernum", "accountant")
        /\ lastCall'.res # "running"
        /\ accountant.accountsdir # "unset"
        /\ re_search(accountant'.call.name)
        /\ \A i \in 1..Len(accountant'.call.name) :
              accountant'.call.name[i] \notin {".", "/"}) =>
          /\ lastCall'.res = "ok"
          /\ lastCall'.data # <<NoNumber>>
          /\ accounts_fs'.entries[accountant'.call.name].created # NoNumber
      ]_vars


\* What C40 says of every state and of every step but the one that takes a
\* server out of get_connected_servers: rref and remote_host are both set
\* or both None, a server with a reference has a live connection, a server
\* comes into get_connected_servers only when _got_versioned_service (used
\* anonymously) or _got_versioned_remote_account completes its handshake,
\* and the loss of its connection takes it out.
C40_Inv ==
    \A o \in Objs :
       /\ client.objs[o].rref = "None" <=> client.objs[o].remote_host = "None"
       /\ client.objs[o].rref # "None" =>
             client.objs[o].conn = "up" /\ client.objs[o].hooked

C40_Enters ==
    \A o \in Objs :
       /\ (client.objs[o].rref = "None" /\ client'.objs[o].rref # "None") =>
             /\ lastCall'.op \in {"got_versioned_service",
                                  "got_versioned_remote_account"}
             /\ client'.servers = client.servers
       /\ (~connected_server(client, o) /\ connected_server(client', o)) =>
             lastCall'.op \in {"got_versioned_service",
                               "got_versioned_remote_account"}
       /\ (client.objs[o].conn = "up" /\ client'.objs[o].conn = "down") =>
             /\ lastCall'.op = "lost"
             /\ client'.objs[o].rref = "None"
             /\ ~connected_server(client', o)
       /\ (client.objs[o].rref # "None" /\ client'.objs[o].rref = "None") =>
             lastCall'.op = "lost"

\* C40 as claimed: a server leaves get_connected_servers only by the loss
\* of its connection.
C40_ConnectionTracking ==
    /\ []C40_Inv
    /\ [][/\ C40_Enters
          /\ \A o \in Objs :
                (connected_server(client, o)
                 /\ ~connected_server(client', o)) =>
                   lastCall'.op = "lost"]_vars

\* C40, amended: a server leaves get_connected_servers by the loss of its
\* connection, or when _got_announcement replaces it by the object of a
\* different announcement for its server id; the replaced object keeps its
\* reference until its connection is lost and is never included again.
C40_TrackingOfHeldServers ==
    /\ []C40_Inv
    /\ [][/\ C40_Enters
          /\ \A o \in Objs :
                (connected_server(client, o)
                 /\ ~connected_server(client', o)) =>
                   \/ lastCall'.op = "lost"
                   \/ /\ lastCall' = Call("got_announcement", "broker", "ok")
                      /\ client'.servers[get_serverid(client.objs[o])] # o
                      /\ client'.objs[o].rref = client.objs[o].rref
          /\ \A o \in Objs :
                client.servers[get_serverid(client.objs[o])] # o =>
                   ~connected_server(client', o)]_vars

\* C40 witness: the server of the first announcement had completed the
\* account upgrade, and its connection has just been lost; the broker still
\* holds it.
C40_Witness ==
    /\ lastCall = Call("lost", "server", "ok")
    /\ Len(client.objs) = 1
    /\ client.servers["s1"] = 1
    /\ client.objs[1].accounting_enabled = "yes"
    /\ client.objs[1].rref = "None"
    /\ client.objs[1].remote_host = "None"
    /\ get_connected_servers = {}

====
